---- MODULE Spec2Model ----
(***************************************************************************)
(* Multi-tenant identity resolution and credential vault of the FileSmile  *)
(* backend: the Tenant Directory (tenants, tenant_domains, users,          *)
(* user_tenants), the admin CRUD handlers, resolve_tenant, register_user,  *)
(* switch_tenant and the get_current_user gate.                            *)
(*                                                                         *)
(* Strings that the code splits or lower-cases (emails, domains) are       *)
(* sequences of one-character strings.  Stored credential columns are      *)
(* tuples: NULL, the empty string, or a ciphertext <<key, plaintext>>.     *)
(***************************************************************************)
EXTENDS Integers, Sequences, FiniteSets, TLC

\* ------------------------------------------------------------------ bounds
MaxTenants == 2
MaxDomainRows == 2
MaxUsers == 2
MaxUserTenantRows == 3
MaxEmailLen == 3

\* ------------------------------------------------------------ input values
Reqs == {1, 2}
TenantNames == {"Acme", "Beta"}
Companies == {"", "demo"}
Secrets == {"s1", "s2"}
Keys == {"k1", "k2"}
Chars == {"@", "x", "X"}

\* Python None: as a string field or function result, as an integer field and
\* as an optional boolean field ("True" / "False" / None)
None == "<None>"
NoneInt == -1
OptBools == {"True", "False", None}

\* ----------------------------------------------------------------- strings
\* str.lower() on one character
LowerChar(c) == IF c = "X" THEN "x" ELSE c

\* str.lower()
Lower(s) == [i \in 1..Len(s) |-> LowerChar(s[i])]

\* index of the first occurrence of c in s, 0 when there is none
RECURSIVE FirstIndex(_, _, _)
FirstIndex(s, c, i) ==
    IF i > Len(s) THEN 0
    ELSE IF s[i] = c THEN i
    ELSE FirstIndex(s, c, i + 1)

\* str.split(sep): the parts between the occurrences of sep
RECURSIVE Split(_, _)
Split(s, sep) ==
    LET i == FirstIndex(s, sep, 1) IN
    IF i = 0 THEN <<s>>
    ELSE <<SubSeq(s, 1, i - 1)>> \o Split(SubSeq(s, i + 1, Len(s)), sep)

\* the ValueError("Invalid email format") of get_domain_from_email
ValueError == <<"ValueError">>

\* get_domain_from_email without the .lower()
get_domain_from_email_as_typed(email) ==
    LET parts == Split(email, "@")
    IN IF Len(parts) # 2 THEN ValueError ELSE parts[2]

get_domain_from_email(email) ==
    LET parts == Split(email, "@") IN
    IF Len(parts) # 2 THEN ValueError ELSE Lower(parts[2])

\* all strings of length 0..n over the alphabet
RECURSIVE StringsUpTo(_)
StringsUpTo(n) ==
    IF n = 0 THEN {<<>>}
    ELSE LET shorter == StringsUpTo(n - 1) IN
         shorter \cup {Append(s, c) : s \in {t \in shorter : Len(t) = n - 1}, c \in Chars}

\* ------------------------------------------------------------------- vault
NULL == <<"NULL">>
EmptyStr == <<>>

\* Python truthiness of a stored column value
Truthy(col) == col # NULL /\ col # EmptyStr

\* EncryptionService.encrypt under master key k
encrypt(k, plaintext) ==
    IF plaintext = "" THEN EmptyStr ELSE <<k, plaintext>>

\* Fernet.decrypt raising InvalidToken
InvalidToken == "<raise InvalidToken>"

\* Fernet(key).decrypt: the plaintext of a token authenticated under key k
fernet_decrypt(k, token) ==
    IF Len(token) = 2 /\ token[1] = k THEN token[2] ELSE InvalidToken

decrypt_uncaught(k, ciphertext) ==
    IF ~Truthy(ciphertext) THEN None ELSE fernet_decrypt(k, ciphertext)

\* EncryptionService.decrypt under master key k
decrypt(k, ciphertext) ==
    IF ~Truthy(ciphertext) THEN None
    ELSE LET decrypted == fernet_decrypt(k, ciphertext)
         IN IF decrypted = InvalidToken THEN None ELSE decrypted

VARIABLES
    tenants,          \* rows of table tenants
    tenant_domains,   \* rows of table tenant_domains
    users,            \* rows of table users
    user_tenants,     \* rows of table user_tenants
    seq,              \* primary-key sequences, one per table
    encryption_key,   \* settings.encryption_key of the running process
    issued,           \* user tokens signed so far
    issued_admin,     \* admin tokens signed so far
    now,              \* datetime.utcnow(), in ticks
    pc,               \* position of each register / switch request
    req,              \* inputs and locals of each register / switch request
    resp              \* response of the last single-step handler

directory == <<tenants, tenant_domains, users, user_tenants>>
vars == <<tenants, tenant_domains, users, user_tenants, seq, encryption_key,
          issued, issued_admin, now, pc, req, resp>>

\* ------------------------------------------------------------ Token Service
\* datetime values are counted in ticks, TicksPerSecond of them to the second
\* (datetime.utcnow() has microseconds)
TicksPerSecond == 2
jwt_expire_minutes == 1440
admin_jwt_expire_minutes == 480
jwt_secret_key == "jwt-secret"

\* timedelta(minutes=m)
timedelta(minutes) == minutes * 60 * TicksPerSecond

\* calendar.timegm(dt.utctimetuple()): the whole seconds of a datetime
timegm(dt) == dt \div TicksPerSecond

\* int(delta.total_seconds()) of a non-negative timedelta
total_seconds(delta) == delta \div TicksPerSecond

\* str(n) and int(s) of the ids the model uses
Digits == <<"0", "1", "2", "3", "4", "5", "6", "7", "8", "9">>
str(n) == Digits[n + 1]
int(s) == (CHOOSE i \in 1..Len(Digits) : Digits[i] = s) - 1

\* jose.jwt.encode: datetime claims become whole seconds, the claims are
\* signed with the key
jwt_encode(payload, key) ==
    [key |-> key,
     payload |-> [c \in DOMAIN payload |->
                    IF c \in {"exp", "iat"} THEN timegm(payload[c]) ELSE payload[c]]]

\* jose.jwt.decode: JWTError for a bad signature and for an exp claim that is
\* earlier than the current whole second; an absent exp is not looked at
JWTError == [error |-> "JWTError"]
jwt_decode(token, key) ==
    IF token.key # key THEN JWTError
    ELSE IF "exp" \in DOMAIN token.payload /\ token.payload.exp < timegm(now) THEN JWTError
    ELSE token.payload

\* HTTPException(401, detail) raised by a verification
Unauthorized(detail) == [error |-> detail]

\* JWTService.create_user_jwt: (token, expires_at)
create_user_jwt(user_id, tenant_id, email) ==
    LET expires_at == now + timedelta(jwt_expire_minutes)
        payload == [sub |-> str(user_id), tenant_id |-> tenant_id, email |-> email,
                    exp |-> expires_at, iat |-> now]
    IN <<jwt_encode(payload, jwt_secret_key), expires_at>>

\* verify_jwt that decodes the claims without checking the signature
verify_jwt_unsigned(token) ==
    IF {"sub", "tenant_id", "email"} \subseteq DOMAIN token.payload
    THEN token.payload
    ELSE Unauthorized("Invalid token")

\* JWTService.verify_jwt: the payload, or the 401 it raises
verify_jwt(token) ==
    LET payload == jwt_decode(token, jwt_secret_key)
    IN IF payload = JWTError THEN Unauthorized("Invalid token")
       ELSE IF ~({"sub", "tenant_id", "email"} \subseteq DOMAIN payload)
       THEN Unauthorized("Invalid token: missing required claims")
       ELSE payload

\* AdminJWTService.create_admin_jwt: (token, expires_at)
create_admin_jwt(username) ==
    LET expires_at == now + timedelta(admin_jwt_expire_minutes)
        payload == [sub |-> username, admin |-> TRUE, exp |-> expires_at, iat |-> now]
    IN <<jwt_encode(payload, jwt_secret_key), expires_at>>

\* AdminJWTService.verify_admin_jwt: the payload, or the 401 it raises
verify_admin_jwt(token) ==
    LET payload == jwt_decode(token, jwt_secret_key)
    IN IF payload = JWTError THEN Unauthorized("Invalid admin token")
       ELSE IF ~("admin" \in DOMAIN payload /\ payload.admin)
       THEN Unauthorized("Not an admin token")
       ELSE payload

\* the bearer credential of a request: none, a string that jwt.decode cannot
\* verify, or a signed token
NoCredential == [key |-> "", payload |-> [none |-> TRUE]]
BadToken == [key |-> "garbage", payload |-> [none |-> TRUE]]

\* ---------------------------------------------------------------- responses
NoToken == [key |-> "", payload |-> [none |-> FALSE]]

\* the response of a single-step handler: HTTP status, detail, X-Error-Code
\* header and the body fields the handlers fill in
Response(op, status, detail) ==
    [op |-> op, status |-> status, detail |-> detail, code |-> "", email |-> <<>>,
     tenant_id |-> 0, tenant_name |-> "", tenants |-> {},
     requires_selection |-> FALSE, token |-> NoToken, sub |-> "", expires_at |-> 0,
     plaintext |-> None, ciphertext |-> NULL, credentials |-> None,
     expires_in |-> 0]

NoResponse == Response("", 0, "")

\* a request slot that holds no request yet
NoRequest ==
    [op |-> "", email |-> <<>>, domain |-> <<>>, erp_username |-> "", erp_password_or_token |-> "",
     tenant_id |-> 0, tenant |-> 0, user |-> 0, user_created |-> FALSE,
     user_tenant |-> 0, erp |-> "", username |-> "", password |-> "",
     wrote |-> FALSE, txn |-> FALSE, status |-> 0, detail |-> "", token |-> NoToken,
     created_at |-> 0, expires_in |-> 0]

\* --------------------------------------------------------------- directory
\* db.query(Model).filter(Model.id == id).first(): the set holds 0 or 1 row
ById(table, id) == {r \in table : r.id = id}

\* the single row of a one-row query result
TheRow(rows) == CHOOSE r \in rows : TRUE

\* .first() of a query result that may hold several rows: the database returns
\* them in primary-key order
First(rows) == CHOOSE r \in rows : \A o \in rows : r.id <= o.id

\* UniqueConstraint('tenant_id', 'domain', name='uq_tenant_domain_pair')
uq_tenant_domain_pair(rows) ==
    \A a, b \in rows : (a.tenant_id = b.tenant_id /\ a.domain = b.domain) => a.id = b.id

\* UniqueConstraint('user_id', 'tenant_id', name='uq_user_tenant_pair')
\* user_tenants without its unique constraint
uq_user_tenant_pair_dropped(rows) == TRUE

uq_user_tenant_pair(rows) ==
    \A a, b \in rows : (a.user_id = b.user_id /\ a.tenant_id = b.tenant_id) => a.id = b.id

\* UniqueConstraint('email', name='uq_users_email')
uq_users_email(rows) ==
    \A a, b \in rows : a.email = b.email => a.id = b.id

\* the next value of a table's primary-key sequence
NextId(table) == seq[table] + 1

\* an INSERT of a users row with this email waits while another request holds
\* an uncommitted INSERT of the same email (the unique index entry is locked)
EmailLocked(email) ==
    \E r \in Reqs : pc[r] = "reg_commit" /\ req[r].user_created /\ req[r].email = email

\* the stored form of an optional admin-supplied credential:
\* encrypt_value(x) if x else None
OptEncrypt(x) ==
    IF x = None \/ x = "" THEN NULL ELSE encrypt(encryption_key, x)

\* ------------------------------------------------------------ admin: tenants
\* create_tenant; is_active None means the field was left out
create_tenant(name, erp_base_url, erp_company, is_active) ==
    /\ seq.tenants < MaxTenants
    /\ IF \E t \in tenants : t.name = name
       THEN /\ resp' = Response("create_tenant", 400, "Tenant with this name already exists")
            /\ UNCHANGED <<tenants, seq>>
       ELSE /\ tenants' = tenants \cup
                   {[id |-> NextId("tenants"), name |-> name,
                     erp_base_url |-> erp_base_url, erp_company |-> erp_company,
                     is_active |-> IF is_active = None THEN TRUE ELSE is_active = "True"]}
            /\ seq' = [seq EXCEPT !.tenants = @ + 1]
            /\ resp' = [Response("create_tenant", 201, "") EXCEPT !.tenant_id = NextId("tenants")]
    /\ UNCHANGED <<issued_admin, now, tenant_domains, users, user_tenants, encryption_key, issued, pc, req>>

\* update_tenant; a None field is left as it is
update_tenant(tenant_id, name, erp_base_url, erp_company, is_active) ==
    /\ IF ById(tenants, tenant_id) = {}
       THEN /\ resp' = Response("update_tenant", 404, "Tenant not found")
            /\ UNCHANGED tenants
       ELSE LET tenant == TheRow(ById(tenants, tenant_id))
                updated == [tenant EXCEPT
                    !.name = IF name # None THEN name ELSE @,
                    !.erp_base_url = IF erp_base_url # None THEN erp_base_url ELSE @,
                    !.erp_company = IF erp_company # None THEN erp_company ELSE @,
                    !.is_active = IF is_active # None THEN is_active = "True" ELSE @]
            IN /\ tenants' = (tenants \ {tenant}) \cup {updated}
               /\ resp' = [Response("update_tenant", 200, "") EXCEPT !.tenant_id = tenant_id]
    /\ UNCHANGED <<issued_admin, now, tenant_domains, users, user_tenants, seq, encryption_key, issued, pc, req>>

\* delete_tenant: the ORM cascade deletes the tenant's domains and associations
delete_tenant_no_cascade(tenant_id) ==
    /\ IF ById(tenants, tenant_id) = {}
       THEN /\ resp' = Response("delete_tenant", 404, "Tenant not found")
            /\ UNCHANGED <<tenants, tenant_domains, user_tenants>>
       ELSE /\ tenants' = tenants \ ById(tenants, tenant_id)
            /\ tenant_domains' = {d \in tenant_domains : d.tenant_id # tenant_id}
            /\ UNCHANGED user_tenants
            /\ resp' = [Response("delete_tenant", 204, "") EXCEPT !.tenant_id = tenant_id]
    /\ UNCHANGED <<issued_admin, now, users, seq, encryption_key, issued, pc, req>>

delete_tenant(tenant_id) ==
    /\ IF ById(tenants, tenant_id) = {}
       THEN /\ resp' = Response("delete_tenant", 404, "Tenant not found")
            /\ UNCHANGED <<tenants, tenant_domains, user_tenants>>
       ELSE /\ tenants' = tenants \ ById(tenants, tenant_id)
            /\ tenant_domains' = {d \in tenant_domains : d.tenant_id # tenant_id}
            /\ user_tenants' = {ut \in user_tenants : ut.tenant_id # tenant_id}
            /\ resp' = [Response("delete_tenant", 204, "") EXCEPT !.tenant_id = tenant_id]
    /\ UNCHANGED <<issued_admin, now, users, seq, encryption_key, issued, pc, req>>

\* ------------------------------------------------------------ admin: domains
create_domain_unchecked(domain, tenant_id) ==
    /\ seq.tenant_domains < MaxDomainRows
    /\ IF ById(tenants, tenant_id) = {}
       THEN /\ resp' = Response("create_domain", 400, "Tenant not found")
            /\ UNCHANGED <<tenant_domains, seq>>
       ELSE LET inserted == tenant_domains \cup
                   {[id |-> NextId("tenant_domains"), tenant_id |-> tenant_id,
                     domain |-> Lower(domain)]}
            IN IF uq_tenant_domain_pair(inserted)
               THEN /\ tenant_domains' = inserted
                    /\ seq' = [seq EXCEPT !.tenant_domains = @ + 1]
                    /\ resp' = [Response("create_domain", 201, "") EXCEPT !.tenant_id = tenant_id]
               ELSE /\ resp' = Response("create_domain", 500, "Internal Server Error")
                    /\ seq' = [seq EXCEPT !.tenant_domains = @ + 1]
                    /\ UNCHANGED tenant_domains
    /\ UNCHANGED <<issued_admin, now, tenants, users, user_tenants, encryption_key, issued, pc, req>>

create_domain(domain, tenant_id) ==
    /\ seq.tenant_domains < MaxDomainRows
    /\ IF \E d \in tenant_domains : d.domain = Lower(domain) /\ d.tenant_id = tenant_id
       THEN /\ resp' = Response("create_domain", 400, "This domain is already connected to this tenant")
            /\ UNCHANGED <<tenant_domains, seq>>
       ELSE IF ById(tenants, tenant_id) = {}
       THEN /\ resp' = Response("create_domain", 400, "Tenant not found")
            /\ UNCHANGED <<tenant_domains, seq>>
       ELSE /\ tenant_domains' = tenant_domains \cup
                   {[id |-> NextId("tenant_domains"), tenant_id |-> tenant_id,
                     domain |-> Lower(domain)]}
            /\ seq' = [seq EXCEPT !.tenant_domains = @ + 1]
            /\ resp' = [Response("create_domain", 201, "") EXCEPT !.tenant_id = tenant_id]
    /\ UNCHANGED <<issued_admin, now, tenants, users, user_tenants, encryption_key, issued, pc, req>>

\* update_domain; an empty or absent domain (both falsy, written <<>>) and a
\* tenant_id of None leave the field as it is
update_domain(domain_id, domain, tenant_id) ==
    /\ IF ById(tenant_domains, domain_id) = {}
       THEN /\ resp' = Response("update_domain", 404, "Domain not found")
            /\ UNCHANGED tenant_domains
       ELSE LET row == TheRow(ById(tenant_domains, domain_id))
                given == domain # <<>>
                new_domain_name == IF given THEN Lower(domain) ELSE row.domain
                new_tenant_id == IF tenant_id # NoneInt THEN tenant_id ELSE row.tenant_id
                conflict ==
                    /\ new_domain_name # row.domain \/ new_tenant_id # row.tenant_id
                    /\ \E d \in tenant_domains :
                          /\ d.domain = new_domain_name
                          /\ d.tenant_id = new_tenant_id
                          /\ d.id # domain_id
            IN IF conflict
               THEN /\ resp' = Response("update_domain", 400, "This domain-tenant combination already exists")
                    /\ UNCHANGED tenant_domains
               ELSE IF tenant_id # NoneInt /\ ById(tenants, tenant_id) = {}
               THEN /\ resp' = Response("update_domain", 400, "Tenant not found")
                    /\ UNCHANGED tenant_domains
               ELSE /\ tenant_domains' = (tenant_domains \ {row}) \cup
                           {[row EXCEPT !.domain = new_domain_name,
                                        !.tenant_id = new_tenant_id]}
                    /\ resp' = [Response("update_domain", 200, "") EXCEPT !.tenant_id = new_tenant_id]
    /\ UNCHANGED <<issued_admin, now, tenants, users, user_tenants, seq, encryption_key, issued, pc, req>>

delete_domain(domain_id) ==
    /\ IF ById(tenant_domains, domain_id) = {}
       THEN /\ resp' = Response("delete_domain", 404, "Domain not found")
            /\ UNCHANGED tenant_domains
       ELSE /\ tenant_domains' = tenant_domains \ ById(tenant_domains, domain_id)
            /\ resp' = Response("delete_domain", 204, "")
    /\ UNCHANGED <<issued_admin, now, tenants, users, user_tenants, seq, encryption_key, issued, pc, req>>

\* -------------------------------------------------------------- admin: users
\* create_user: the e-mail is lower-cased; a falsy tenant_id (0) creates no
\* association; the credentials are stored without an ERP check
create_user(email, is_active, tenant_id, erp_username, erp_password_or_token) ==
    /\ seq.users < MaxUsers
    /\ tenant_id # 0 => seq.user_tenants < MaxUserTenantRows
    /\ ~EmailLocked(Lower(email))
    /\ IF \E u \in users : u.email = Lower(email)
       THEN /\ resp' = Response("create_user", 400, "User with this email already exists")
            /\ UNCHANGED <<users, user_tenants, seq>>
       ELSE IF tenant_id # 0 /\ ById(tenants, tenant_id) = {}
       THEN \* db.rollback(): the flushed user row is dropped, its id is spent
            /\ resp' = Response("create_user", 400, "Tenant not found")
            /\ seq' = [seq EXCEPT !.users = @ + 1]
            /\ UNCHANGED <<users, user_tenants>>
       ELSE /\ users' = users \cup
                   {[id |-> NextId("users"), email |-> Lower(email),
                     is_active |-> IF is_active = None THEN TRUE ELSE is_active = "True",
                     created_at |-> now]}
            /\ user_tenants' =
                   IF tenant_id = 0 THEN user_tenants
                   ELSE user_tenants \cup
                        {[id |-> NextId("user_tenants"), user_id |-> NextId("users"),
                          tenant_id |-> tenant_id,
                          erp_username |-> OptEncrypt(erp_username),
                          erp_password_or_token |-> OptEncrypt(erp_password_or_token),
                          is_active |-> TRUE, validated |-> FALSE]}
            /\ seq' = [seq EXCEPT !.users = @ + 1,
                                  !.user_tenants = IF tenant_id = 0 THEN @ ELSE @ + 1]
            /\ resp' = [Response("create_user", 201, "") EXCEPT !.tenant_id = tenant_id]
    /\ UNCHANGED <<issued_admin, now, tenants, tenant_domains, encryption_key, issued, pc, req>>

\* update_user: an empty or absent e-mail (both falsy, written <<>>) and an
\* is_active of None leave the field as it is (display name and role are not
\* part of the model)
update_user(user_id, email, is_active) ==
    /\ IF ById(users, user_id) = {}
       THEN /\ resp' = Response("update_user", 404, "User not found")
            /\ UNCHANGED users
       ELSE LET user == TheRow(ById(users, user_id))
                renamed == email # <<>> /\ Lower(email) # user.email
            IN IF renamed /\ \E u \in users : u.email = Lower(email)
               THEN /\ resp' = Response("update_user", 400, "User with this email already exists")
                    /\ UNCHANGED users
               ELSE /\ ~(renamed /\ EmailLocked(Lower(email)))
                    /\ users' = (users \ {user}) \cup
                         {[user EXCEPT
                             !.email = IF renamed THEN Lower(email) ELSE @,
                             !.is_active = IF is_active # None THEN is_active = "True" ELSE @]}
                    /\ resp' = Response("update_user", 200, "")
    /\ UNCHANGED <<issued_admin, now, tenants, tenant_domains, user_tenants, seq, encryption_key, issued, pc, req>>

\* delete_user: the ORM cascade deletes the user's associations
delete_user(user_id) ==
    /\ IF ById(users, user_id) = {}
       THEN /\ resp' = Response("delete_user", 404, "User not found")
            /\ UNCHANGED <<users, user_tenants>>
       ELSE /\ users' = users \ ById(users, user_id)
            /\ user_tenants' = {ut \in user_tenants : ut.user_id # user_id}
            /\ resp' = Response("delete_user", 204, "")
    /\ UNCHANGED <<issued_admin, now, tenants, tenant_domains, seq, encryption_key, issued, pc, req>>

\* ------------------------------------------------- admin: user-tenant rows
\* db.query(UserTenant).filter(user_id == u, tenant_id == t)
Associations(user_id, tenant_id) ==
    {ut \in user_tenants : ut.user_id = user_id /\ ut.tenant_id = tenant_id}

\* add_user_tenant: the credentials are stored without an ERP check
add_user_tenant(user_id, tenant_id, erp_username, erp_password_or_token, is_active) ==
    /\ seq.user_tenants < MaxUserTenantRows
    /\ IF ById(users, user_id) = {}
       THEN /\ resp' = Response("add_user_tenant", 404, "User not found")
            /\ UNCHANGED <<user_tenants, seq>>
       ELSE IF ById(tenants, tenant_id) = {}
       THEN /\ resp' = Response("add_user_tenant", 400, "Tenant not found")
            /\ UNCHANGED <<user_tenants, seq>>
       ELSE IF Associations(user_id, tenant_id) # {}
       THEN /\ resp' = Response("add_user_tenant", 400, "User is already associated with this tenant")
            /\ UNCHANGED <<user_tenants, seq>>
       ELSE /\ user_tenants' = user_tenants \cup
                   {[id |-> NextId("user_tenants"), user_id |-> user_id,
                     tenant_id |-> tenant_id,
                     erp_username |-> OptEncrypt(erp_username),
                     erp_password_or_token |-> OptEncrypt(erp_password_or_token),
                     is_active |-> IF is_active = None THEN TRUE ELSE is_active = "True",
                     validated |-> FALSE]}
            /\ seq' = [seq EXCEPT !.user_tenants = @ + 1]
            /\ resp' = [Response("add_user_tenant", 201, "") EXCEPT !.tenant_id = tenant_id]
    /\ UNCHANGED <<issued_admin, now, tenants, tenant_domains, users, encryption_key, issued, pc, req>>

\* update_user_tenant: a None field is left as it is; a given credential is
\* encrypted and stored without an ERP check
update_user_tenant(user_id, tenant_id, erp_username, erp_password_or_token, is_active) ==
    /\ IF Associations(user_id, tenant_id) = {}
       THEN /\ resp' = Response("update_user_tenant", 404, "User-tenant association not found")
            /\ UNCHANGED user_tenants
       ELSE LET user_tenant == First(Associations(user_id, tenant_id))
                updated == [user_tenant EXCEPT
                    !.erp_username =
                        IF erp_username # None THEN encrypt(encryption_key, erp_username) ELSE @,
                    !.erp_password_or_token =
                        IF erp_password_or_token # None
                        THEN encrypt(encryption_key, erp_password_or_token) ELSE @,
                    !.validated =
                        IF erp_username # None \/ erp_password_or_token # None THEN FALSE ELSE @,
                    !.is_active = IF is_active # None THEN is_active = "True" ELSE @]
            IN /\ user_tenants' = (user_tenants \ {user_tenant}) \cup {updated}
               /\ resp' = [Response("update_user_tenant", 200, "") EXCEPT !.tenant_id = tenant_id]
    /\ UNCHANGED <<issued_admin, now, tenants, tenant_domains, users, seq, encryption_key, issued, pc, req>>

remove_user_tenant(user_id, tenant_id) ==
    /\ IF Associations(user_id, tenant_id) = {}
       THEN /\ resp' = Response("remove_user_tenant", 404, "User-tenant association not found")
            /\ UNCHANGED user_tenants
       ELSE /\ user_tenants' = user_tenants \ {First(Associations(user_id, tenant_id))}
            /\ resp' = Response("remove_user_tenant", 204, "")
    /\ UNCHANGED <<issued_admin, now, tenants, tenant_domains, users, seq, encryption_key, issued, pc, req>>

\* ------------------------------------------------------------ resolve_tenant
resolve_tenant(email) ==
    /\ LET domain == get_domain_from_email(email)
           base(status, detail) == [Response("resolve_tenant", status, detail) EXCEPT !.email = email]
       IN IF domain = ValueError
          THEN resp' = base(400, "Invalid email format")
          ELSE LET tenant_domain_rows == {d \in tenant_domains : d.domain = domain}
                   tenant_ids == {d.tenant_id : d \in tenant_domain_rows}
                   found == {t \in tenants : t.id \in tenant_ids /\ t.is_active}
               IN IF tenant_domain_rows = {}
                  THEN resp' = [base(404, "TENANT_NOT_FOUND") EXCEPT
                                   !.code = "TENANT_NOT_FOUND"]
                  ELSE IF found = {}
                  THEN resp' = [base(404, "TENANT_NOT_FOUND_OR_INACTIVE") EXCEPT
                                   !.code = "TENANT_NOT_FOUND"]
                  ELSE IF Cardinality(found) = 1
                  THEN resp' = [base(200, "") EXCEPT
                                   !.tenant_id = TheRow(found).id,
                                   !.tenant_name = TheRow(found).name,
                                   !.requires_selection = FALSE]
                  ELSE resp' = [base(200, "") EXCEPT
                                   !.tenants = {<<t.id, t.name>> : t \in found},
                                   !.requires_selection = TRUE]
    /\ UNCHANGED <<issued_admin, now, tenants, tenant_domains, users, user_tenants, seq, encryption_key,
                   issued, pc, req>>

\* payload.get(claim)
get(payload, claim) == IF claim \in DOMAIN payload THEN payload[claim] ELSE None

\* settings.admin_username and the password whose bcrypt hash is
\* settings.admin_password_hash
admin_username == "admin"
admin_password == "admin-pw"

\* verify_admin_password: bcrypt.checkpw against the configured hash
verify_admin_password(plain_password) == plain_password = admin_password

verify_admin_credentials(username, password) ==
    IF username # admin_username THEN FALSE ELSE verify_admin_password(password)

\* POST /admin/login
admin_login(username, password) ==
    /\ IF ~verify_admin_credentials(username, password)
       THEN /\ resp' = Response("admin_login", 401, "Invalid credentials")
            /\ UNCHANGED issued_admin
       ELSE LET created == create_admin_jwt(username) IN
            /\ resp' = [Response("admin_login", 200, "") EXCEPT
                           !.token = created[1], !.sub = username, !.expires_at = created[2]]
            /\ issued_admin' = issued_admin \cup {created[1]}
    /\ UNCHANGED <<now, tenants, tenant_domains, users, user_tenants, seq, encryption_key,
                   issued, pc, req>>

\* the admin dependency of every /admin route
get_current_admin_any_token(credentials) ==
    /\ LET base(status, detail) == [Response("get_current_admin", status, detail) EXCEPT !.token = credentials]
       IN IF credentials = NoCredential
          THEN resp' = base(401, "Missing authentication token")
          ELSE LET payload == jwt_decode(credentials, jwt_secret_key) IN
               IF "error" \in DOMAIN payload
               THEN resp' = base(401, "Invalid admin token")
               ELSE resp' = [base(200, "") EXCEPT !.sub = get(payload, "sub")]
    /\ UNCHANGED <<issued_admin, now, tenants, tenant_domains, users, user_tenants, seq, encryption_key,
                   issued, pc, req>>

get_current_admin(credentials) ==
    /\ LET base(status, detail) == [Response("get_current_admin", status, detail) EXCEPT !.token = credentials]
       IN IF credentials = NoCredential
          THEN resp' = base(401, "Missing authentication token")
          ELSE LET payload == verify_admin_jwt(credentials) IN
               IF "error" \in DOMAIN payload
               THEN resp' = base(401, payload.error)
               ELSE resp' = [base(200, "") EXCEPT !.sub = get(payload, "sub")]
    /\ UNCHANGED <<issued_admin, now, tenants, tenant_domains, users, user_tenants, seq, encryption_key,
                   issued, pc, req>>

\* ---------------------------------------------------------- get_current_user
\* get_current_user that looks the association up before the user and tenant
get_current_user_association_first(credentials) ==
    /\ LET base(status, detail) == [Response("get_current_user", status, detail) EXCEPT !.token = credentials]
       IN IF credentials = NoCredential
          THEN resp' = base(401, "Missing authentication token")
          ELSE LET payload == verify_jwt(credentials) IN
               IF "error" \in DOMAIN payload
               THEN resp' = base(401, payload.error)
               ELSE LET user_id == int(payload.sub)
                        tenant_id == payload.tenant_id
                        user == {u \in users : u.id = user_id /\ u.is_active}
                        tenant == {t \in tenants : t.id = tenant_id /\ t.is_active}
                        user_tenant == {ut \in Associations(user_id, tenant_id) : ut.is_active}
                    IN IF user_tenant = {}
                       THEN resp' = base(403, "User does not have access to this tenant")
                       ELSE IF user = {}
                       THEN resp' = base(401, "User not found or inactive")
                       ELSE IF tenant = {}
                       THEN resp' = base(401, "Tenant not found or inactive")
                       ELSE resp' = [base(200, "") EXCEPT !.tenant_id = tenant_id]
    /\ UNCHANGED <<issued_admin, now, tenants, tenant_domains, users, user_tenants, seq, encryption_key,
                   issued, pc, req>>

get_current_user(credentials) ==
    /\ LET base(status, detail) == [Response("get_current_user", status, detail) EXCEPT !.token = credentials]
       IN IF credentials = NoCredential
          THEN resp' = base(401, "Missing authentication token")
          ELSE LET payload == verify_jwt(credentials) IN
               IF "error" \in DOMAIN payload
               THEN resp' = base(401, payload.error)
               ELSE LET user_id == int(payload.sub)
                        tenant_id == payload.tenant_id
                        user == {u \in users : u.id = user_id /\ u.is_active}
                        tenant == {t \in tenants : t.id = tenant_id /\ t.is_active}
                        user_tenant == {ut \in Associations(user_id, tenant_id) : ut.is_active}
                    IN IF user = {}
                       THEN resp' = base(401, "User not found or inactive")
                       ELSE IF tenant = {}
                       THEN resp' = base(401, "Tenant not found or inactive")
                       ELSE IF user_tenant = {}
                       THEN resp' = base(403, "User does not have access to this tenant")
                       ELSE resp' = [base(200, "") EXCEPT !.tenant_id = tenant_id]
    /\ UNCHANGED <<issued_admin, now, tenants, tenant_domains, users, user_tenants, seq, encryption_key,
                   issued, pc, req>>

\* ------------------------------------------------------------- AuthHelper
\* hasattr(obj, name): an ORM object carries the columns of its model only
hasattr(obj, name) == name \in DOMAIN obj

\* the CurrentUser get_current_user returns (user and tenant, nothing else), or
\* the HTTPException it raises
CurrentUser(credentials) ==
    IF credentials = NoCredential
    THEN [status |-> 401, detail |-> "Missing authentication token"]
    ELSE LET payload == verify_jwt(credentials) IN
         IF "error" \in DOMAIN payload
         THEN [status |-> 401, detail |-> payload.error]
         ELSE LET user_id == int(payload.sub)
                  tenant_id == payload.tenant_id
                  user == {u \in users : u.id = user_id /\ u.is_active}
                  tenant == {t \in tenants : t.id = tenant_id /\ t.is_active}
                  user_tenant == {ut \in Associations(user_id, tenant_id) : ut.is_active}
              IN IF user = {}
                 THEN [status |-> 401, detail |-> "User not found or inactive"]
                 ELSE IF tenant = {}
                 THEN [status |-> 401, detail |-> "Tenant not found or inactive"]
                 ELSE IF user_tenant = {}
                 THEN [status |-> 403, detail |-> "User does not have access to this tenant"]
                 ELSE [status |-> 200, detail |-> "", user |-> TheRow(user), tenant |-> TheRow(tenant),
                       user_id |-> TheRow(user).id, tenant_id |-> TheRow(tenant).id,
                       email |-> TheRow(user).email]

\* an endpoint that depends on get_current_user and asks AuthHelper for the
\* user's own credentials (use_admin_credentials = False).  The credentials are
\* read from current_user.user; an exception leaves the helper re-raised and
\* the endpoint answers 500.
get_priority_credentials_and_config(credentials) ==
    /\ LET base(status, detail) ==
               [Response("get_priority_credentials_and_config", status, detail) EXCEPT !.token = credentials]
           current_user == CurrentUser(credentials)
       IN IF current_user.status # 200
          THEN resp' = base(current_user.status, current_user.detail)
          ELSE LET tenant == current_user.tenant
                   user == current_user.user
               IN IF ~hasattr(user, "erp_username")
                  THEN resp' = base(500, "'User' object has no attribute 'erp_username'")
                  ELSE IF ~hasattr(user, "erp_password_or_token")
                  THEN resp' = base(500, "'User' object has no attribute 'erp_password_or_token'")
                  ELSE LET erp_username == IF Truthy(user.erp_username)
                                           THEN decrypt(encryption_key, user.erp_username) ELSE None
                           erp_password == IF Truthy(user.erp_password_or_token)
                                           THEN decrypt(encryption_key, user.erp_password_or_token)
                                           ELSE None
                       IN IF erp_username \in {None, ""} \/ erp_password \in {None, ""}
                          THEN resp' = base(401, "User ERP credentials not configured. Please complete registration.")
                          ELSE resp' = [base(200, "") EXCEPT
                                           !.tenant_id = current_user.tenant_id,
                                           !.credentials = <<erp_username, erp_password,
                                                             tenant.erp_company, tenant.erp_base_url>>]
    /\ UNCHANGED <<issued_admin, now, tenants, tenant_domains, users, user_tenants, seq, encryption_key,
                   issued, pc, req>>

\* ---------------------------------------------------- ERP validation gateway
\* what PriorityClient.validate_credentials can end in: success, HTTP 401,
\* another HTTP error status, a connection error, a timeout.  The ERP is an
\* external system: every outcome is possible for every call.
ErpOutcomes == {"ok", "auth", "http", "connect", "timeout"}

\* str(e) of the exception validate_credentials raised
ErpErrorText(outcome) ==
    CASE outcome = "auth" -> "Invalid ERP credentials: authentication failed"
      [] outcome = "http" -> "Server error"
      [] outcome = "connect" -> "All connection attempts failed"
      [] outcome = "timeout" -> ""
      [] outcome = "company" -> "Company is required for multi-tenant Priority client"
      [] outcome = "base_url" -> "Base URL is required for multi-tenant Priority client"

\* PriorityClient.__init__: the ValueError it raises, or "ok"
PriorityClient(tenant) ==
    IF tenant.erp_company = "" THEN "company"
    ELSE IF tenant.erp_base_url = "" THEN "base_url"
    ELSE "ok"

\* a request slot's state when its handler has returned or raised
Finished(r, status, detail) ==
    [req[r] EXCEPT !.status = status, !.detail = detail, !.txn = FALSE]

\* the last response sent once slot r's handler has returned or raised; a
\* handler waiting for the ERP has sent nothing
Sent(r, new_pc, new_req) ==
    IF new_pc[r] = "idle"
    THEN [Response(new_req[r].op, new_req[r].status, new_req[r].detail) EXCEPT
             !.email = new_req[r].email, !.token = new_req[r].token,
             !.expires_in = new_req[r].expires_in]
    ELSE resp

\* ------------------------------------------------------------- register_user
\* lines 174-257: resolve the tenant, build the client, start the ERP call.
\* A tenant_id of None or 0 is falsy and written 0.
register_start(r, email, erp_username, erp_password_or_token, tenant_id) ==
    /\ pc[r] = "idle"
    /\ LET domain == get_domain_from_email(email)
           request == [NoRequest EXCEPT !.op = "register", !.email = email,
                          !.erp_username = erp_username,
                          !.erp_password_or_token = erp_password_or_token,
                          !.tenant_id = tenant_id]
           fail(status, detail) ==
               /\ req' = [req EXCEPT ![r] = [request EXCEPT !.status = status, !.detail = detail]]
               /\ pc' = pc
           validate(tenant) ==
               IF tenant = {}
               THEN fail(404, "Tenant not found or inactive")
               ELSE IF PriorityClient(TheRow(tenant)) # "ok"
               THEN /\ req' = [req EXCEPT ![r] = [request EXCEPT
                                  !.status = 401,
                                  !.detail = "Invalid ERP credentials: " \o ErpErrorText(PriorityClient(TheRow(tenant))),
                                  !.tenant = TheRow(tenant).id,
                                  !.erp = PriorityClient(TheRow(tenant))]]
                    /\ pc' = pc
               ELSE /\ req' = [req EXCEPT ![r] = [request EXCEPT
                                  !.tenant = TheRow(tenant).id, !.txn = TRUE]]
                    /\ pc' = [pc EXCEPT ![r] = "reg_erp"]
       IN IF domain = ValueError
          THEN fail(400, "Invalid email format")
          ELSE IF tenant_id # 0
          THEN LET tenant_domain == {d \in tenant_domains :
                                        d.domain = domain /\ d.tenant_id = tenant_id}
               IN IF tenant_domain = {}
                  THEN fail(400, "Selected tenant is not valid for this email domain")
                  ELSE validate({t \in tenants : t.id = tenant_id /\ t.is_active})
          ELSE LET tenant_domain_rows == {d \in tenant_domains : d.domain = domain}
               IN IF tenant_domain_rows = {}
                  THEN fail(404, "No tenant configured for this email domain")
                  ELSE IF Cardinality(tenant_domain_rows) > 1
                  THEN fail(400, "TENANT_SELECTION_REQUIRED")
                  ELSE validate({t \in tenants :
                                    /\ t.id = First(tenant_domain_rows).tenant_id
                                    /\ t.is_active})
    /\ resp' = Sent(r, pc', req')
    /\ UNCHANGED <<issued_admin, now, tenants, tenant_domains, users, user_tenants, seq, encryption_key,
                   issued>>

\* the ERP call returns or raises, and the handler goes on whatever happened
register_erp_return_unchecked(r, outcome) ==
    /\ pc[r] = "reg_erp"
    /\ req' = [req EXCEPT ![r].erp = outcome]
    /\ pc' = [pc EXCEPT ![r] = "reg_find"]
    /\ UNCHANGED <<issued_admin, now, tenants, tenant_domains, users, user_tenants, seq, encryption_key,
                   issued, resp>>

\* lines 257-269: the ERP call returns or raises
register_erp_return(r, outcome) ==
    /\ pc[r] = "reg_erp"
    /\ IF outcome = "ok"
       THEN /\ req' = [req EXCEPT ![r].erp = outcome]
            /\ pc' = [pc EXCEPT ![r] = "reg_find"]
       ELSE /\ req' = [req EXCEPT ![r] =
                         [Finished(r, 401, "Invalid ERP credentials: " \o ErpErrorText(outcome))
                            EXCEPT !.erp = outcome]]
            /\ pc' = [pc EXCEPT ![r] = "idle"]
    /\ resp' = Sent(r, pc', req')
    /\ UNCHANGED <<issued_admin, now, tenants, tenant_domains, users, user_tenants, seq, encryption_key,
                   issued>>

\* line 272: look the user up by e-mail, as given
register_find_user(r) ==
    /\ pc[r] = "reg_find"
    /\ LET user == {u \in users : u.email = req[r].email}
       IN req' = [req EXCEPT ![r].user = IF user = {} THEN 0 ELSE First(user).id,
                             ![r].created_at = IF user = {} THEN 0 ELSE First(user).created_at]
    /\ pc' = [pc EXCEPT ![r] = "reg_flush"]
    /\ resp' = Sent(r, pc', req')
    /\ UNCHANGED <<issued_admin, now, tenants, tenant_domains, users, user_tenants, seq, encryption_key,
                   issued>>

\* lines 274-288: INSERT the new user (db.flush()), then look the association
\* up.  The INSERT waits for an uncommitted users row with the same e-mail and
\* raises IntegrityError on a committed one (uq_users_email).
register_flush(r) ==
    /\ pc[r] = "reg_flush"
    /\ IF req[r].user # 0
       THEN LET user_tenant == Associations(req[r].user, req[r].tenant)
            IN /\ req' = [req EXCEPT ![r].user_tenant =
                             IF user_tenant = {} THEN 0 ELSE First(user_tenant).id]
               /\ pc' = [pc EXCEPT ![r] = "reg_commit"]
               /\ UNCHANGED seq
       ELSE /\ ~EmailLocked(req[r].email)
            /\ IF ~uq_users_email(users \cup {[id |-> 0, email |-> req[r].email, is_active |-> TRUE]})
               THEN /\ req' = [req EXCEPT ![r] = Finished(r, 500, "IntegrityError")]
                    /\ pc' = [pc EXCEPT ![r] = "idle"]
                    /\ UNCHANGED seq
               ELSE /\ seq.users < MaxUsers
                    /\ seq' = [seq EXCEPT !.users = @ + 1]
                    /\ req' = [req EXCEPT ![r].user = NextId("users"),
                                          ![r].user_created = TRUE,
                                          ![r].created_at = now,
                                          ![r].user_tenant = 0]
                    /\ pc' = [pc EXCEPT ![r] = "reg_commit"]
    /\ resp' = Sent(r, pc', req')
    /\ UNCHANGED <<issued_admin, now, tenants, tenant_domains, users, user_tenants, encryption_key,
                   issued>>

\* ForeignKey("users.id") and ForeignKey("tenants.id") of a user_tenants row
fk_user_tenant(row, user_rows, tenant_rows) ==
    /\ \E u \in user_rows : u.id = row.user_id
    /\ \E t \in tenant_rows : t.id = row.tenant_id

register_commit_activating_users(r) ==
    /\ pc[r] = "reg_commit"
    /\ LET request == req[r]
           new_users == IF request.user_created
                        THEN users \cup {[id |-> request.user, email |-> request.email,
                                          is_active |-> TRUE,
                                          created_at |-> request.created_at]}
                        ELSE users
           erp_username == encrypt(encryption_key, request.erp_username)
           erp_password_or_token == encrypt(encryption_key, request.erp_password_or_token)
           existing == ById(user_tenants, request.user_tenant)
           created == [id |-> NextId("user_tenants"), user_id |-> request.user,
                       tenant_id |-> request.tenant,
                       erp_username |-> erp_username,
                       erp_password_or_token |-> erp_password_or_token,
                       is_active |-> TRUE, validated |-> (request.erp = "ok")]
           raise(detail) ==
               /\ req' = [req EXCEPT ![r] = Finished(r, 500, detail)]
               /\ UNCHANGED <<users, user_tenants, seq, issued>>
           return(user_id) ==
               LET jwt == create_user_jwt(user_id, request.tenant, request.email)
                   token == jwt[1]
                   expires_at == jwt[2]
               IN /\ req' = [req EXCEPT ![r] =
                              [Finished(r, 200, "") EXCEPT
                                  !.token = token, !.wrote = TRUE,
                                  !.expires_in = total_seconds(expires_at - request.created_at)]]
                  /\ issued' = issued \cup {token}
       IN IF request.user_tenant # 0
          THEN IF existing = {}
               THEN raise("StaleDataError")
               ELSE /\ user_tenants' = (user_tenants \ existing) \cup
                          {[TheRow(existing) EXCEPT
                              !.erp_username = erp_username,
                              !.erp_password_or_token = erp_password_or_token,
                              !.is_active = TRUE,
                              !.validated = (request.erp = "ok")]}
                    /\ users' = {[u EXCEPT !.is_active = TRUE] : u \in new_users}
                    /\ UNCHANGED seq
                    /\ return(request.user)
          ELSE IF \/ ~uq_user_tenant_pair(user_tenants \cup {created})
                  \/ ~fk_user_tenant(created, new_users, tenants)
          THEN raise("IntegrityError")
          ELSE /\ seq.user_tenants < MaxUserTenantRows
               /\ user_tenants' = user_tenants \cup {created}
               /\ users' = {[u EXCEPT !.is_active = TRUE] : u \in new_users}
               /\ seq' = [seq EXCEPT !.user_tenants = @ + 1]
               /\ return(request.user)
    /\ pc' = [pc EXCEPT ![r] = "idle"]
    /\ resp' = Sent(r, pc', req')
    /\ UNCHANGED <<issued_admin, now, tenants, tenant_domains, encryption_key>>

register_commit_keeping_flag(r) ==
    /\ pc[r] = "reg_commit"
    /\ LET request == req[r]
           new_users == IF request.user_created
                        THEN users \cup {[id |-> request.user, email |-> request.email,
                                          is_active |-> TRUE,
                                          created_at |-> request.created_at]}
                        ELSE users
           erp_username == encrypt(encryption_key, request.erp_username)
           erp_password_or_token == encrypt(encryption_key, request.erp_password_or_token)
           existing == ById(user_tenants, request.user_tenant)
           created == [id |-> NextId("user_tenants"), user_id |-> request.user,
                       tenant_id |-> request.tenant,
                       erp_username |-> erp_username,
                       erp_password_or_token |-> erp_password_or_token,
                       is_active |-> TRUE, validated |-> (request.erp = "ok")]
           raise(detail) ==
               /\ req' = [req EXCEPT ![r] = Finished(r, 500, detail)]
               /\ UNCHANGED <<users, user_tenants, seq, issued>>
           return(user_id) ==
               LET jwt == create_user_jwt(user_id, request.tenant, request.email)
                   token == jwt[1]
                   expires_at == jwt[2]
               IN /\ req' = [req EXCEPT ![r] =
                              [Finished(r, 200, "") EXCEPT
                                  !.token = token, !.wrote = TRUE,
                                  !.expires_in = total_seconds(expires_at - request.created_at)]]
                  /\ issued' = issued \cup {token}
       IN IF request.user_tenant # 0
          THEN IF existing = {}
               THEN raise("StaleDataError")
               ELSE /\ user_tenants' = (user_tenants \ existing) \cup
                          {[TheRow(existing) EXCEPT
                              !.erp_username = erp_username,
                              !.erp_password_or_token = erp_password_or_token,
                              !.validated = (request.erp = "ok")]}
                    /\ users' = new_users
                    /\ UNCHANGED seq
                    /\ return(request.user)
          ELSE IF \/ ~uq_user_tenant_pair(user_tenants \cup {created})
                  \/ ~fk_user_tenant(created, new_users, tenants)
          THEN raise("IntegrityError")
          ELSE /\ seq.user_tenants < MaxUserTenantRows
               /\ user_tenants' = user_tenants \cup {created}
               /\ users' = new_users
               /\ seq' = [seq EXCEPT !.user_tenants = @ + 1]
               /\ return(request.user)
    /\ pc' = [pc EXCEPT ![r] = "idle"]
    /\ resp' = Sent(r, pc', req')
    /\ UNCHANGED <<issued_admin, now, tenants, tenant_domains, encryption_key>>

\* lines 290-326: update or INSERT the association, db.commit(), issue the
\* token.  The commit raises (and rolls everything back) when the row to update
\* is gone, or when the new row breaks uq_user_tenant_pair or a foreign key.
register_commit(r) ==
    /\ pc[r] = "reg_commit"
    /\ LET request == req[r]
           new_users == IF request.user_created
                        THEN users \cup {[id |-> request.user, email |-> request.email,
                                          is_active |-> TRUE,
                                          created_at |-> request.created_at]}
                        ELSE users
           erp_username == encrypt(encryption_key, request.erp_username)
           erp_password_or_token == encrypt(encryption_key, request.erp_password_or_token)
           existing == ById(user_tenants, request.user_tenant)
           created == [id |-> NextId("user_tenants"), user_id |-> request.user,
                       tenant_id |-> request.tenant,
                       erp_username |-> erp_username,
                       erp_password_or_token |-> erp_password_or_token,
                       is_active |-> TRUE, validated |-> (request.erp = "ok")]
           raise(detail) ==
               /\ req' = [req EXCEPT ![r] = Finished(r, 500, detail)]
               /\ UNCHANGED <<users, user_tenants, seq, issued>>
           return(user_id) ==
               LET jwt == create_user_jwt(user_id, request.tenant, request.email)
                   token == jwt[1]
                   expires_at == jwt[2]
               IN /\ req' = [req EXCEPT ![r] =
                              [Finished(r, 200, "") EXCEPT
                                  !.token = token, !.wrote = TRUE,
                                  !.expires_in = total_seconds(expires_at - request.created_at)]]
                  /\ issued' = issued \cup {token}
       IN IF request.user_tenant # 0
          THEN IF existing = {}
               THEN raise("StaleDataError")
               ELSE /\ user_tenants' = (user_tenants \ existing) \cup
                          {[TheRow(existing) EXCEPT
                              !.erp_username = erp_username,
                              !.erp_password_or_token = erp_password_or_token,
                              !.is_active = TRUE,
                              !.validated = (request.erp = "ok")]}
                    /\ users' = new_users
                    /\ UNCHANGED seq
                    /\ return(request.user)
          ELSE IF \/ ~uq_user_tenant_pair(user_tenants \cup {created})
                  \/ ~fk_user_tenant(created, new_users, tenants)
          THEN raise("IntegrityError")
          ELSE /\ seq.user_tenants < MaxUserTenantRows
               /\ user_tenants' = user_tenants \cup {created}
               /\ users' = new_users
               /\ seq' = [seq EXCEPT !.user_tenants = @ + 1]
               /\ return(request.user)
    /\ pc' = [pc EXCEPT ![r] = "idle"]
    /\ resp' = Sent(r, pc', req')
    /\ UNCHANGED <<issued_admin, now, tenants, tenant_domains, encryption_key>>

\* --------------------------------------------------------------- switch_tenant
\* lines 358-417: look up user, tenant and association, decrypt the stored
\* credentials, build the client, start the ERP call
switch_start(r, email, tenant_id) ==
    /\ pc[r] = "idle"
    /\ LET request == [NoRequest EXCEPT !.op = "switch", !.email = email,
                          !.tenant_id = tenant_id]
           fail(status, detail) ==
               /\ req' = [req EXCEPT ![r] = [request EXCEPT !.status = status, !.detail = detail]]
               /\ pc' = pc
           user == {u \in users : u.email = email}
           tenant == {t \in tenants : t.id = tenant_id /\ t.is_active}
       IN IF user = {}
          THEN fail(404, "User not found")
          ELSE IF tenant = {}
          THEN fail(404, "Tenant not found or inactive")
          ELSE LET user_tenant == {ut \in Associations(First(user).id, tenant_id) : ut.is_active}
               IN IF \/ user_tenant = {}
                     \/ ~Truthy(First(user_tenant).erp_username)
                     \/ ~Truthy(First(user_tenant).erp_password_or_token)
                  THEN fail(401, "NO_STORED_CREDENTIALS")
                  ELSE LET erp_username == decrypt(encryption_key, First(user_tenant).erp_username)
                           erp_password == decrypt(encryption_key, First(user_tenant).erp_password_or_token)
                       IN IF PriorityClient(TheRow(tenant)) # "ok"
                          THEN /\ req' = [req EXCEPT ![r] = [request EXCEPT
                                             !.status = 401,
                                             !.detail = "STORED_CREDENTIALS_INVALID",
                                             !.erp = PriorityClient(TheRow(tenant))]]
                               /\ pc' = pc
                          ELSE /\ req' = [req EXCEPT ![r] = [request EXCEPT
                                             !.user = First(user).id,
                                             !.created_at = First(user).created_at,
                                             !.tenant = tenant_id,
                                             !.user_tenant = First(user_tenant).id,
                                             !.username = erp_username,
                                             !.password = erp_password,
                                             !.txn = TRUE]]
                               /\ pc' = [pc EXCEPT ![r] = "sw_erp"]
    /\ resp' = Sent(r, pc', req')
    /\ UNCHANGED <<issued_admin, now, tenants, tenant_domains, users, user_tenants, seq, encryption_key,
                   issued>>

\* the ERP call returns or raises, and the token is issued whatever happened
switch_erp_return_unchecked(r, outcome) ==
    /\ pc[r] = "sw_erp"
    /\ LET created == create_user_jwt(req[r].user, req[r].tenant, req[r].email)
               token == created[1]
               expires_in == total_seconds(created[2] - req[r].created_at)
       IN /\ req' = [req EXCEPT ![r] =
                       [Finished(r, 200, "") EXCEPT !.erp = outcome, !.token = token,
                                                       !.expires_in = expires_in]]
          /\ issued' = issued \cup {token}
    /\ pc' = [pc EXCEPT ![r] = "idle"]
    /\ resp' = Sent(r, pc', req')
    /\ UNCHANGED <<issued_admin, now, tenants, tenant_domains, users, user_tenants, seq, encryption_key>>

switch_erp_return_clearing(r, outcome) ==
    /\ pc[r] = "sw_erp"
    /\ IF outcome = "ok"
       THEN LET created == create_user_jwt(req[r].user, req[r].tenant, req[r].email)
               token == created[1]
               expires_in == total_seconds(created[2] - req[r].created_at)
            IN /\ req' = [req EXCEPT ![r] =
                            [Finished(r, 200, "") EXCEPT !.erp = outcome, !.token = token,
                                                       !.expires_in = expires_in]]
               /\ issued' = issued \cup {token}
               /\ UNCHANGED user_tenants
       ELSE /\ req' = [req EXCEPT ![r] =
                         [Finished(r, 401, "STORED_CREDENTIALS_INVALID") EXCEPT !.erp = outcome]]
            /\ user_tenants' = {IF ut.id = req[r].user_tenant
                                THEN [ut EXCEPT !.erp_username = NULL,
                                                !.erp_password_or_token = NULL]
                                ELSE ut : ut \in user_tenants}
            /\ UNCHANGED issued
    /\ pc' = [pc EXCEPT ![r] = "idle"]
    /\ resp' = Sent(r, pc', req')
    /\ UNCHANGED <<issued_admin, now, tenants, tenant_domains, users, seq, encryption_key>>

\* lines 417-445: the ERP call returns or raises; on success issue the token
switch_erp_return(r, outcome) ==
    /\ pc[r] = "sw_erp"
    /\ IF outcome = "ok"
       THEN LET created == create_user_jwt(req[r].user, req[r].tenant, req[r].email)
               token == created[1]
               expires_in == total_seconds(created[2] - req[r].created_at)
            IN /\ req' = [req EXCEPT ![r] =
                            [Finished(r, 200, "") EXCEPT !.erp = outcome, !.token = token,
                                                       !.expires_in = expires_in]]
               /\ issued' = issued \cup {token}
       ELSE /\ req' = [req EXCEPT ![r] =
                         [Finished(r, 401, "STORED_CREDENTIALS_INVALID") EXCEPT !.erp = outcome]]
            /\ UNCHANGED issued
    /\ pc' = [pc EXCEPT ![r] = "idle"]
    /\ resp' = Sent(r, pc', req')
    /\ UNCHANGED <<issued_admin, now, tenants, tenant_domains, users, user_tenants, seq, encryption_key>>

\* ------------------------------------------- admin requests of two processes
\* The handlers below are create_domain, create_user and add_user_tenant run
\* by server processes that share the database: the queries a handler makes
\* before its INSERT are one step, its INSERT and db.commit() another.

\* create_domain, lines 381-398: the existence check and the tenant lookup
create_domain_query(r, domain, tenant_id) ==
    /\ pc[r] = "idle"
    /\ LET request == [NoRequest EXCEPT !.op = "create_domain", !.domain = Lower(domain),
                          !.tenant_id = tenant_id]
           fail(status, detail) ==
               /\ req' = [req EXCEPT ![r] = [request EXCEPT !.status = status, !.detail = detail]]
               /\ pc' = pc
       IN IF \E d \in tenant_domains : d.domain = Lower(domain) /\ d.tenant_id = tenant_id
          THEN fail(400, "This domain is already connected to this tenant")
          ELSE IF ById(tenants, tenant_id) = {}
          THEN fail(400, "Tenant not found")
          ELSE /\ req' = [req EXCEPT ![r] = [request EXCEPT !.txn = TRUE]]
               /\ pc' = [pc EXCEPT ![r] = "adm_commit"]
    /\ resp' = Sent(r, pc', req')
    /\ UNCHANGED <<issued_admin, now, tenants, tenant_domains, users, user_tenants, seq,
                   encryption_key, issued>>

\* create_user, lines 539-544: the existence check
create_user_query(r, email, tenant_id, erp_username, erp_password_or_token) ==
    /\ pc[r] = "idle"
    /\ LET request == [NoRequest EXCEPT !.op = "create_user", !.email = Lower(email),
                          !.tenant_id = tenant_id, !.erp_username = erp_username,
                          !.erp_password_or_token = erp_password_or_token]
       IN IF \E u \in users : u.email = Lower(email)
          THEN /\ req' = [req EXCEPT ![r] = [request EXCEPT !.status = 400,
                              !.detail = "User with this email already exists"]]
               /\ pc' = pc
          ELSE /\ req' = [req EXCEPT ![r] = [request EXCEPT !.txn = TRUE]]
               /\ pc' = [pc EXCEPT ![r] = "adm_commit"]
    /\ resp' = Sent(r, pc', req')
    /\ UNCHANGED <<issued_admin, now, tenants, tenant_domains, users, user_tenants, seq,
                   encryption_key, issued>>

\* add_user_tenant, lines 661-687: the user, tenant and association lookups
add_user_tenant_query(r, user_id, tenant_id, erp_username, erp_password_or_token) ==
    /\ pc[r] = "idle"
    /\ LET request == [NoRequest EXCEPT !.op = "add_user_tenant", !.user = user_id,
                          !.tenant_id = tenant_id, !.erp_username = erp_username,
                          !.erp_password_or_token = erp_password_or_token]
           fail(status, detail) ==
               /\ req' = [req EXCEPT ![r] = [request EXCEPT !.status = status, !.detail = detail]]
               /\ pc' = pc
       IN IF ById(users, user_id) = {}
          THEN fail(404, "User not found")
          ELSE IF ById(tenants, tenant_id) = {}
          THEN fail(400, "Tenant not found")
          ELSE IF Associations(user_id, tenant_id) # {}
          THEN fail(400, "User is already associated with this tenant")
          ELSE /\ req' = [req EXCEPT ![r] = [request EXCEPT !.txn = TRUE]]
               /\ pc' = [pc EXCEPT ![r] = "adm_commit"]
    /\ resp' = Sent(r, pc', req')
    /\ UNCHANGED <<issued_admin, now, tenants, tenant_domains, users, user_tenants, seq,
                   encryption_key, issued>>

\* the INSERT and db.commit() of the three handlers (create_domain 400-409,
\* create_user 546-579, add_user_tenant 689-701).  No handler catches the
\* IntegrityError of a violated unique or foreign-key constraint: the request
\* then ends with 500 and the value drawn from the id sequence is spent.
admin_commit(r) ==
    /\ pc[r] = "adm_commit"
    /\ LET request == req[r]
           error == Finished(r, 500, "Internal Server Error")
       IN CASE request.op = "create_domain" ->
                 LET row == [id |-> NextId("tenant_domains"), tenant_id |-> request.tenant_id,
                             domain |-> request.domain]
                 IN /\ seq.tenant_domains < MaxDomainRows
                    /\ seq' = [seq EXCEPT !.tenant_domains = @ + 1]
                    /\ IF /\ uq_tenant_domain_pair(tenant_domains \cup {row})
                          /\ ById(tenants, request.tenant_id) # {}
                       THEN /\ tenant_domains' = tenant_domains \cup {row}
                            /\ req' = [req EXCEPT ![r] = Finished(r, 201, "")]
                       ELSE /\ req' = [req EXCEPT ![r] = error]
                            /\ UNCHANGED tenant_domains
                    /\ UNCHANGED <<users, user_tenants>>
            [] request.op = "create_user" ->
                 LET user == [id |-> NextId("users"), email |-> request.email,
                              is_active |-> TRUE, created_at |-> now]
                     user_tenant == [id |-> NextId("user_tenants"), user_id |-> user.id,
                                     tenant_id |-> request.tenant_id,
                                     erp_username |-> OptEncrypt(request.erp_username),
                                     erp_password_or_token |->
                                         OptEncrypt(request.erp_password_or_token),
                                     is_active |-> TRUE, validated |-> FALSE]
                 IN /\ seq.users < MaxUsers
                    /\ request.tenant_id # 0 => seq.user_tenants < MaxUserTenantRows
                    /\ ~EmailLocked(request.email)
                    /\ IF ~uq_users_email(users \cup {user})
                       THEN /\ req' = [req EXCEPT ![r] = error]
                            /\ seq' = [seq EXCEPT !.users = @ + 1]
                            /\ UNCHANGED <<users, user_tenants>>
                       ELSE IF request.tenant_id # 0 /\ ById(tenants, request.tenant_id) = {}
                       THEN /\ req' = [req EXCEPT ![r] = Finished(r, 400, "Tenant not found")]
                            /\ seq' = [seq EXCEPT !.users = @ + 1]
                            /\ UNCHANGED <<users, user_tenants>>
                       ELSE /\ users' = users \cup {user}
                            /\ user_tenants' = IF request.tenant_id = 0 THEN user_tenants
                                               ELSE user_tenants \cup {user_tenant}
                            /\ seq' = [seq EXCEPT !.users = @ + 1,
                                          !.user_tenants = IF request.tenant_id = 0 THEN @ ELSE @ + 1]
                            /\ req' = [req EXCEPT ![r] = Finished(r, 201, "")]
                    /\ UNCHANGED tenant_domains
            [] request.op = "add_user_tenant" ->
                 LET row == [id |-> NextId("user_tenants"), user_id |-> request.user,
                             tenant_id |-> request.tenant_id,
                             erp_username |-> OptEncrypt(request.erp_username),
                             erp_password_or_token |-> OptEncrypt(request.erp_password_or_token),
                             is_active |-> TRUE, validated |-> FALSE]
                 IN /\ seq.user_tenants < MaxUserTenantRows
                    /\ seq' = [seq EXCEPT !.user_tenants = @ + 1]
                    /\ IF /\ uq_user_tenant_pair(user_tenants \cup {row})
                          /\ fk_user_tenant(row, users, tenants)
                       THEN /\ user_tenants' = user_tenants \cup {row}
                            /\ req' = [req EXCEPT ![r] = Finished(r, 201, "")]
                       ELSE /\ req' = [req EXCEPT ![r] = error]
                            /\ UNCHANGED user_tenants
                    /\ UNCHANGED <<users, tenant_domains>>
    /\ pc' = [pc EXCEPT ![r] = "idle"]
    /\ resp' = Sent(r, pc', req')
    /\ UNCHANGED <<issued_admin, now, tenants, encryption_key, issued>>

\* ------------------------------------------------------------------- process
\* the server is restarted with another ENCRYPTION_KEY (get_encryption_service
\* derives the key once per process); no request survives a restart
restart(key) ==
    /\ \A r \in Reqs : pc[r] = "idle"
    /\ encryption_key' = key
    /\ UNCHANGED <<issued_admin, now, tenants, tenant_domains, users, user_tenants, seq, issued, pc, req, resp>>

\* the Directory of a fresh installation (init_db creates empty tables)
Init ==
    /\ tenants = {}
    /\ tenant_domains = {}
    /\ users = {}
    /\ user_tenants = {}
    /\ seq = [tenants |-> 0, tenant_domains |-> 0, users |-> 0, user_tenants |-> 0]
    /\ encryption_key = "k1"
    /\ issued = {}
    /\ issued_admin = {}
    /\ now = 0
    /\ pc = [r \in Reqs |-> "idle"]
    /\ req = [r \in Reqs |-> NoRequest]
    /\ resp = NoResponse

\* ------------------------------------------------------- the Directory alone
\* Operators manage tenants and domains while clients resolve e-mails.
TenantIds == 1..MaxTenants
DomainInputs == {<<"x">>, <<"X">>, <<"x", "x">>}
EmailInputs == StringsUpTo(MaxEmailLen)

NextDirectory ==
    \/ \E name \in TenantNames, is_active \in OptBools :
          create_tenant(name, "https://erp", "demo", is_active)
    \/ \E id \in TenantIds, is_active \in OptBools :
          update_tenant(id, None, None, None, is_active)
    \/ \E domain \in DomainInputs, id \in TenantIds : create_domain(domain, id)
    \/ \E email \in EmailInputs : resolve_tenant(email)

SpecDirectory == Init /\ [][NextDirectory]_vars

\* the part of an e-mail after its only "@", lower-cased
DomainPart(email) ==
    LET at == CHOOSE i \in 1..Len(email) : email[i] = "@"
    IN [j \in 1..(Len(email) - at) |-> IF email[at + j] = "X" THEN "x" ELSE email[at + j]]

\* the number of "@" in an e-mail
CountAt(email) == Cardinality({i \in 1..Len(email) : email[i] = "@"})

\* the set A of the claims: the active tenants with a tenant_domains row for
\* the domain
ActiveTenantsFor(domain) ==
    {t \in tenants : /\ t.is_active
                     /\ \E d \in tenant_domains : d.domain = domain /\ d.tenant_id = t.id}

\* the resolve_tenant response the claim asks for in the current Directory
ResolvedAsClaimed ==
    IF CountAt(resp.email) # 1
    THEN resp.status = 400 /\ resp.detail = "Invalid email format"
    ELSE LET A == ActiveTenantsFor(DomainPart(resp.email))
         IN /\ A = {} => resp.status = 404 /\ resp.code = "TENANT_NOT_FOUND"
            /\ Cardinality(A) = 1 =>
                  /\ resp.status = 200
                  /\ ~resp.requires_selection
                  /\ \E t \in A : resp.tenant_id = t.id /\ resp.tenant_name = t.name
            /\ Cardinality(A) > 1 =>
                  /\ resp.status = 200
                  /\ resp.requires_selection
                  /\ resp.tenants = {<<t.id, t.name>> : t \in A}

\* C9: resolve_tenant answers 400 for an e-mail without exactly one "@";
\* otherwise, with A the active tenants mapped to the lower-cased domain, 404
\* TENANT_NOT_FOUND when A is empty, the tenant when A has one element, and
\* requires_selection with exactly the (id, name) pairs of A when A has more;
\* a step that produces a resolve_tenant response leaves the Directory as it is.
C9_ResolveTenant ==
    /\ [](resp.op = "resolve_tenant" => ResolvedAsClaimed)
    /\ [][resp'.op = "resolve_tenant" /\ resp' # resp => directory' = directory]_vars

\* C9 witness: a domain mapped to two active tenants was resolved
C9_Witness ==
    /\ resp.op = "resolve_tenant"
    /\ resp.requires_selection
    /\ Cardinality(resp.tenants) = 2

\* ------------------------------------------------------ one client registers
\* The Directory after add_sample_tenant.py: one active tenant and its domain.
InitSample ==
    /\ tenants = {[id |-> 1, name |-> "Acme", erp_base_url |-> "https://erp",
                   erp_company |-> "demo", is_active |-> TRUE]}
    /\ tenant_domains = {[id |-> 1, tenant_id |-> 1, domain |-> <<"x">>]}
    /\ users = {}
    /\ user_tenants = {}
    /\ seq = [tenants |-> 1, tenant_domains |-> 1, users |-> 0, user_tenants |-> 0]
    /\ encryption_key = "k1"
    /\ issued = {}
    /\ issued_admin = {}
    /\ now = 0
    /\ pc = [r \in Reqs |-> "idle"]
    /\ req = [r \in Reqs |-> NoRequest]
    /\ resp = NoResponse

RegEmails == {<<"x", "@", "x">>, <<"x", "x">>}

\* An operator adds a second tenant to the domain and switches tenants on and
\* off while one client registers.
NextRegister ==
    \/ \E company \in Companies : create_tenant("Beta", "https://erp", company, None)
    \/ \E id \in TenantIds, is_active \in {"True", "False"} :
          update_tenant(id, None, None, None, is_active)
    \/ \E id \in TenantIds : create_domain(<<"x">>, id)
    \/ \E email \in RegEmails, id \in TenantIds \cup {0} :
          register_start(1, email, "alice", "s1", id)
    \/ \E outcome \in ErpOutcomes : register_erp_return(1, outcome)
    \/ register_find_user(1)
    \/ register_flush(1)
    \/ register_commit(1)

SpecRegister == InitSample /\ [][NextRegister]_vars

\* what the ERP validation of a request can fail with
ErpFailures == {"auth", "http", "connect", "timeout", "company", "base_url"}

\* C1: a step in which the ERP validation of a register request fails, for
\* whatever reason, ends the request in an error, issues no token and leaves
\* every row of the Directory as it is.
C1_ErpFailureAbortsRegister ==
    [][\A r \in Reqs :
         (req'[r] # req[r] /\ req'[r].op = "register" /\ req'[r].erp \in ErpFailures)
            => /\ pc'[r] = "idle"
               /\ req'[r].status >= 400
               /\ req'[r].token = NoToken
               /\ directory' = directory
               /\ issued' = issued]_vars

\* C1 witness: a registration failed on an ERP timeout while the Directory
\* holds an association of an earlier registration
C1_Witness ==
    \E r \in Reqs :
        /\ pc[r] = "idle"
        /\ req[r].op = "register"
        /\ req[r].erp = "timeout"
        /\ req[r].status = 401
        /\ user_tenants # {}

\* C10: register_user without a tenant_id answers TENANT_SELECTION_REQUIRED
\* exactly when more than one active tenant is mapped to the domain, goes on
\* to the ERP validation with the tenant when exactly one active tenant is
\* mapped, and answers 404 when none is.
C10_RegisterResolvesOverActiveTenants ==
    [][\A r \in Reqs :
         (/\ pc[r] = "idle"
          /\ req'[r] # req[r]
          /\ req'[r].op = "register"
          /\ req'[r].tenant_id = 0
          /\ CountAt(req'[r].email) = 1)
            => LET A == ActiveTenantsFor(DomainPart(req'[r].email))
               IN /\ (req'[r].detail = "TENANT_SELECTION_REQUIRED") <=> (Cardinality(A) > 1)
                  /\ Cardinality(A) = 1 => \E t \in A : req'[r].tenant = t.id
                  /\ A = {} => req'[r].status = 404]_vars

\* C10 witness of the divergence: a registration without tenant_id was refused
\* with TENANT_SELECTION_REQUIRED while one active tenant is mapped
C10_SelectionRequiredForOneActiveTenant ==
    \E r \in Reqs :
        /\ req[r].op = "register"
        /\ req[r].tenant_id = 0
        /\ req[r].detail = "TENANT_SELECTION_REQUIRED"
        /\ CountAt(req[r].email) = 1
        /\ Cardinality(ActiveTenantsFor(DomainPart(req[r].email))) = 1

\* ---------------------------------------------------- the Authentication Gate
\* A client registers and presents bearer credentials while operators
\* deactivate, re-activate and delete users, tenants and associations.
UserIds == 1..MaxUsers
GateEmail == <<"x", "@", "x">>
\* a token of the right shape signed with a key that is not the server's
Forged(user_id, tenant_id, email) ==
    [create_user_jwt(user_id, tenant_id, email)[1] EXCEPT !.key = "guessed"]

GateCredentials ==
    {NoCredential, BadToken} \cup issued \cup
    {Forged(u, t, GateEmail) : u \in UserIds, t \in TenantIds}

NextGate ==
    \/ \E id \in {0, 1} : register_start(1, GateEmail, "alice", "s1", id)
    \/ \E outcome \in {"ok", "auth"} : register_erp_return(1, outcome)
    \/ register_find_user(1)
    \/ register_flush(1)
    \/ register_commit(1)
    \/ \E id \in UserIds, is_active \in {"True", "False"} : update_user(id, <<>>, is_active)
    \/ \E id \in UserIds : delete_user(id)
    \/ \E id \in TenantIds, is_active \in {"True", "False"} :
          update_tenant(id, None, None, None, is_active)
    \/ \E id \in TenantIds : delete_tenant(id)
    \/ \E u \in UserIds, t \in TenantIds, is_active \in {"True", "False"} :
          update_user_tenant(u, t, None, None, is_active)
    \/ \E u \in UserIds, t \in TenantIds : remove_user_tenant(u, t)
    \/ \E credentials \in GateCredentials : get_current_user(credentials)

SpecGate == InitSample /\ [][NextGate]_vars

\* what a request carrying a token finds in the Directory
UserUsable(token) == \E u \in users : str(u.id) = token.payload.sub /\ u.is_active
TenantUsable(token) == \E t \in tenants : t.id = token.payload.tenant_id /\ t.is_active
AssociationUsable(token) ==
    \E ut \in user_tenants :
        /\ str(ut.user_id) = token.payload.sub
        /\ ut.tenant_id = token.payload.tenant_id
        /\ ut.is_active
Usable(token) == UserUsable(token) /\ TenantUsable(token) /\ AssociationUsable(token)

\* a step of a register request
RegisterStep == \E r \in Reqs : req'[r] # req[r] /\ req'[r].op = "register"

GateAsClaimed ==
    LET token == resp.token
    IN IF token = NoCredential
       THEN resp.status = 401 /\ resp.detail = "Missing authentication token"
       ELSE IF token \notin issued
       THEN resp.status = 401 /\ resp.detail = "Invalid token"
       ELSE IF ~UserUsable(token)
       THEN resp.status = 401 /\ resp.detail = "User not found or inactive"
       ELSE IF ~TenantUsable(token)
       THEN resp.status = 401 /\ resp.detail = "Tenant not found or inactive"
       ELSE IF ~AssociationUsable(token)
       THEN resp.status = 403 /\ resp.detail = "User does not have access to this tenant"
       ELSE resp.status = 200

NextSwitch ==
    \/ register_start(1, GateEmail, "alice", "s1", 0)
    \/ \E outcome \in {"ok", "auth"} : register_erp_return(1, outcome)
    \/ register_find_user(1)
    \/ register_flush(1)
    \/ register_commit(1)
    \/ \E key \in Keys : restart(key)
    \/ \E company \in Companies : update_tenant(1, None, None, company, None)
    \/ \E secret \in {"", "s2"} : update_user_tenant(1, 1, None, secret, None)
    \/ \E email \in {GateEmail, <<"x">>}, id \in TenantIds : switch_start(2, email, id)
    \/ \E outcome \in ErpOutcomes : switch_erp_return(2, outcome)

SpecSwitch == InitSample /\ [][NextSwitch]_vars

\* C5: a step in which the ERP re-validation of a switch request fails issues
\* no token and ends the request with 401 STORED_CREDENTIALS_INVALID, whether
\* or not the stored credentials decrypted.
C5_SwitchFailsWhenErpRejects ==
    [][\A r \in Reqs :
         (req'[r] # req[r] /\ req'[r].op = "switch" /\ req'[r].erp \in ErpFailures)
            => /\ pc'[r] = "idle"
               /\ req'[r].status = 401
               /\ req'[r].detail = "STORED_CREDENTIALS_INVALID"
               /\ req'[r].detail # "NO_STORED_CREDENTIALS"
               /\ req'[r].token = NoToken
               /\ issued' = issued]_vars

\* C5 witness: the ERP rejected stored credentials that had decrypted
C5_Witness ==
    \E r \in Reqs :
        /\ pc[r] = "idle"
        /\ req[r].op = "switch"
        /\ req[r].erp = "auth"
        /\ req[r].username = "alice"
        /\ req[r].password \in Secrets
        /\ req[r].detail = "STORED_CREDENTIALS_INVALID"

\* the active association a switch request for (email, tenant_id) would use
StoredFor(email, tenant_id) ==
    {ut \in user_tenants :
        /\ ut.is_active
        /\ ut.tenant_id = tenant_id
        /\ \E u \in users : u.email = email /\ u.id = ut.user_id
        /\ \E t \in tenants : t.id = tenant_id /\ t.is_active}

\* a stored column that is non-empty and that the Vault cannot decrypt
Undecryptable(col) == Truthy(col) /\ col[1] # encryption_key

\* C6: a switch request whose active association holds a non-empty username
\* and secret of which the Vault cannot decrypt one ends at once with
\* NO_STORED_CREDENTIALS: no ERP call is started for it.
C6_UndecryptableIsNoStoredCredentials ==
    [][\A r \in Reqs :
         (/\ pc[r] = "idle"
          /\ req'[r] # req[r]
          /\ req'[r].op = "switch"
          /\ \E ut \in StoredFor(req'[r].email, req'[r].tenant_id) :
                /\ Truthy(ut.erp_username)
                /\ Truthy(ut.erp_password_or_token)
                /\ Undecryptable(ut.erp_username) \/ Undecryptable(ut.erp_password_or_token))
            => /\ pc'[r] = "idle"
               /\ req'[r].detail = "NO_STORED_CREDENTIALS"]_vars

\* C6, what happens: the ERP rejected the switch of an association whose
\* stored credentials the Vault could not decrypt
C6_UndecryptableSentToErp ==
    \E r \in Reqs :
        /\ pc[r] = "idle"
        /\ req[r].op = "switch"
        /\ req[r].username = None
        /\ req[r].erp = "auth"
        /\ req[r].detail = "STORED_CREDENTIALS_INVALID"

\* ------------------------------------------------- concurrent registrations
\* Two clients register the same e-mail for the same tenant with different
\* secrets; an operator may remove the association in between.
NextConcurrent ==
    \/ \E id \in {0, 1} : register_start(1, GateEmail, "alice", "s1", id)
    \/ \E id \in {0, 1} : register_start(2, GateEmail, "alice", "s2", id)
    \/ \E r \in Reqs, outcome \in {"ok", "auth"} : register_erp_return(r, outcome)
    \/ \E r \in Reqs : register_find_user(r)
    \/ \E r \in Reqs : register_flush(r)
    \/ \E r \in Reqs : register_commit(r)
    \/ \E u \in UserIds : remove_user_tenant(u, 1)

SpecConcurrent == InitSample /\ [][NextConcurrent]_vars

\* no two users rows of one e-mail, no two user_tenants rows of one pair
NoDuplicates ==
    /\ \A a, b \in users : a.email = b.email => a = b
    /\ \A a, b \in user_tenants :
          (a.user_id = b.user_id /\ a.tenant_id = b.tenant_id) => a = b

\* request r's registration commits in this step
Commits(r) == pc[r] = "reg_commit" /\ req'[r].status = 200

\* C7: no reachable state holds two user_tenants rows of one (user, tenant)
\* pair or two users rows of one e-mail, and when a registration commits,
\* exactly one users row has its e-mail and exactly one user_tenants row its
\* pair, holding the credentials of that registration.
C7_OneRowLatestCredentials ==
    /\ []NoDuplicates
    /\ [][\A r \in Reqs :
            Commits(r) =>
               /\ Cardinality({u \in users' : u.email = req[r].email}) = 1
               /\ \E u \in users' :
                     /\ u.email = req[r].email
                     /\ LET rows == {ut \in user_tenants' :
                                       ut.user_id = u.id /\ ut.tenant_id = req[r].tenant}
                        IN /\ Cardinality(rows) = 1
                           /\ \A ut \in rows :
                                 /\ ut.erp_username = <<encryption_key, req[r].erp_username>>
                                 /\ ut.erp_password_or_token =
                                       <<encryption_key, req[r].erp_password_or_token>>]_vars

\* C7 witness: both clients registered with different secrets and one
\* association row holds the secret of one of them
C7_Witness ==
    /\ \A r \in Reqs : pc[r] = "idle" /\ req[r].op = "register" /\ req[r].status = 200
    /\ req[1].erp_password_or_token # req[2].erp_password_or_token
    /\ Cardinality(users) = 1
    /\ Cardinality(user_tenants) = 1

\* C8: a registration with ERP-valid credentials that runs into a uniqueness
\* constraint because another registration of the pair committed first is
\* retried as an update and succeeds with a token: none ends in the raw
\* conflict.
C8_ConflictRetriedAsUpdate ==
    \A r \in Reqs :
        (req[r].op = "register" /\ req[r].erp = "ok" /\ pc[r] = "idle")
            => req[r].detail # "IntegrityError"

\* C8, what happens: of two registrations with ERP-valid credentials one
\* committed and the other ended in the raw IntegrityError
C8_RawConflict ==
    /\ \A r \in Reqs : pc[r] = "idle" /\ req[r].op = "register" /\ req[r].erp = "ok"
    /\ \E r \in Reqs : req[r].status = 200
    /\ \E r \in Reqs : req[r].status = 500 /\ req[r].detail = "IntegrityError"

\* ------------------------------------------------------ stored credentials
\* Clients register and switch tenant while operators create users and add,
\* edit and remove associations in the admin panel.
AdminEmail == <<"X", "@", "x">>

NextAssociations ==
    \/ register_start(1, GateEmail, "alice", "s1", 0)
    \/ \E outcome \in {"ok", "auth"} : register_erp_return(1, outcome)
    \/ register_find_user(1)
    \/ register_flush(1)
    \/ register_commit(1)
    \/ switch_start(2, GateEmail, 1)
    \/ \E outcome \in {"ok", "auth"} : switch_erp_return(2, outcome)
    \/ \E id \in {0, 1}, secret \in {None, "s2"} :
          create_user(AdminEmail, None, id, "alice", secret)
    \/ \E u \in UserIds, secret \in {None, "s2"} : add_user_tenant(u, 1, "alice", secret, None)
    \/ \E u \in UserIds, secret \in {None, "s2"} :
          update_user_tenant(u, 1, None, secret, "True")
    \/ \E u \in UserIds : remove_user_tenant(u, 1)

SpecAssociations == InitSample /\ [][NextAssociations]_vars

\* C2: every non-empty ERP secret stored in a user_tenants row passed the ERP
\* validation in the operation that wrote it.
C2_StoredSecretsWereValidated ==
    \A ut \in user_tenants : Truthy(ut.erp_password_or_token) => ut.validated

\* C2, what happens: add_user_tenant or create_user stored a secret in a new
\* row without any ERP call
C2_AdminStoresUnvalidatedSecret ==
    /\ resp.op \in {"add_user_tenant", "create_user", "update_user_tenant"}
    /\ resp.status \in {200, 201}
    /\ \E ut \in user_tenants : Truthy(ut.erp_password_or_token) /\ ~ut.validated

\* ------------------------------------------------- register with a tenant_id
\* C11: register_user given a tenant_id goes on to the ERP validation only
\* when that tenant is active and mapped to the e-mail's lower-cased domain;
\* for every other tenant_id it ends at once with 400 (invalid tenant
\* selection), without an ERP call and with the Directory as it was.
C11_TenantIdMustBeResolved ==
    [][\A r \in Reqs :
         (/\ pc[r] = "idle"
          /\ req'[r] # req[r]
          /\ req'[r].op = "register"
          /\ req'[r].tenant_id # 0
          /\ CountAt(req'[r].email) = 1)
            => IF \E t \in ActiveTenantsFor(DomainPart(req'[r].email)) :
                     t.id = req'[r].tenant_id
               THEN req'[r].tenant = req'[r].tenant_id
               ELSE /\ pc'[r] = "idle"
                    /\ req'[r].status = 400
                    /\ req'[r].detail = "Selected tenant is not valid for this email domain"
                    /\ req'[r].erp = ""
                    /\ directory' = directory]_vars

\* C11, what happens: the tenant_id of an inactive tenant mapped to the
\* domain was refused with 404 instead
C11_InactiveTenantIs404 ==
    \E r \in Reqs :
        /\ pc[r] = "idle"
        /\ req[r].op = "register"
        /\ req[r].tenant_id # 0
        /\ req[r].status = 404
        /\ req[r].detail = "Tenant not found or inactive"
        /\ \E t \in tenants : t.id = req[r].tenant_id /\ ~t.is_active

\* ------------------------------------------------------------ Token Service
MaxTokens == 2
MaxDrift == 3

\* the instants the clock takes: issuing time and the ticks around the end of
\* a user token's lifetime
Instants ==
    {0, 1} \cup {timedelta(jwt_expire_minutes) + d : d \in (0 - 1)..MaxDrift}

\* datetime.utcnow() moves on
tick(t) ==
    /\ t > now
    /\ now' = t
    /\ UNCHANGED <<issued_admin, tenants, tenant_domains, users, user_tenants, seq, encryption_key,
                   issued, pc, req, resp>>

\* JWTService.create_user_jwt called at the present instant
issue_user_jwt(user_id, tenant_id, email) ==
    /\ Cardinality(issued) < MaxTokens
    /\ LET created == create_user_jwt(user_id, tenant_id, email) IN
       /\ issued' = issued \cup {created[1]}
       /\ resp' = [Response("create_user_jwt", 200, "") EXCEPT
                      !.token = created[1], !.expires_at = created[2],
                      !.sub = str(user_id), !.tenant_id = tenant_id, !.email = email]
    /\ UNCHANGED <<issued_admin, now, tenants, tenant_domains, users, user_tenants, seq,
                   encryption_key, pc, req>>

\* JWTService.verify_jwt called at the present instant
check_user_jwt(token) ==
    /\ LET payload == verify_jwt(token)
           base(status, detail) == [Response("verify_jwt", status, detail) EXCEPT !.token = token]
       IN IF "error" \in DOMAIN payload
          THEN resp' = base(401, payload.error)
          ELSE resp' = [base(200, "") EXCEPT !.sub = payload.sub,
                           !.tenant_id = payload.tenant_id, !.email = payload.email]
    /\ UNCHANGED <<issued_admin, now, tenants, tenant_domains, users, user_tenants, seq,
                   encryption_key, issued, pc, req>>

\* a token signed with the server's key whose payload has no claim c
WithoutClaim(token, c) ==
    [token EXCEPT !.payload = [k \in (DOMAIN token.payload) \ {c} |-> token.payload[k]]]

TokenClaims == {"sub", "tenant_id", "email", "iat", "exp"}

TokenInputs ==
    {BadToken, Forged(1, 1, GateEmail)} \cup issued \cup issued_admin \cup
    {WithoutClaim(token, c) : token \in issued, c \in TokenClaims}

NextTokens ==
    \/ \E t \in Instants : tick(t)
    \/ create_user(GateEmail, None, 1, "alice", "s1")
    \/ issue_user_jwt(1, 1, GateEmail)
    \/ \E token \in TokenInputs : check_user_jwt(token)
    \/ \E username \in {"admin", "root"}, password \in {"admin-pw", "wrong"} :
          Cardinality(issued_admin) < MaxTokens /\ admin_login(username, password)
    \/ \E credentials \in TokenInputs \cup {NoCredential} : get_current_admin(credentials)
    \/ \E credentials \in TokenInputs \cup {NoCredential} : get_current_user(credentials)

SpecTokens == InitSample /\ [][NextTokens]_vars

\* C12: a token made by create_user_jwt at t0 expires at t0 plus
\* jwt_expire_minutes; verify_jwt accepts it and returns its user id, tenant
\* id and e-mail at every instant before the expiry, and rejects it with 401
\* at every instant after the expiry.
C12_ValidExactlyUntilExpiry ==
    [][/\ (resp'.op = "create_user_jwt" /\ resp' # resp)
          => resp'.expires_at = now + timedelta(jwt_expire_minutes)
       /\ (resp.op = "create_user_jwt" /\ resp'.op = "verify_jwt" /\ resp'.token = resp.token)
          => /\ now < resp.expires_at
                  => /\ resp'.status = 200
                     /\ int(resp'.sub) = int(resp.sub)
                     /\ resp'.tenant_id = resp.tenant_id
                     /\ resp'.email = resp.email
             /\ now > resp.expires_at => resp'.status = 401]_vars

\* C12, what happens: a token is accepted within the second in which it
\* expired, at an instant that is not the start of that second
C12_AcceptedInTheExpirySecond ==
    /\ resp.op = "verify_jwt"
    /\ resp.status = 200
    /\ resp.token \in issued
    /\ timegm(now) = resp.token.payload.exp
    /\ now % TicksPerSecond # 0

\* C13: admin tokens and user tokens are not interchangeable: no token made
\* by create_admin_jwt is accepted by verify_jwt or passes get_current_user,
\* and no token made by create_user_jwt passes get_current_admin
\* (verify_admin_jwt); each such request ends with 401.
C13_TokensNotInterchangeable ==
    /\ (resp.op \in {"verify_jwt", "get_current_user"} /\ resp.token \in issued_admin)
          => resp.status = 401
    /\ (resp.op = "get_current_admin" /\ resp.token \in issued)
          => resp.status = 401

\* C13, the case: an unexpired user token whose user would pass the
\* Authentication Gate was presented to get_current_admin and refused as not
\* an admin token
C13_Witness ==
    /\ resp.op = "get_current_admin"
    /\ resp.token \in issued
    /\ timegm(now) < resp.token.payload.exp
    /\ resp.status = 401
    /\ resp.detail = "Not an admin token"
    /\ \E u \in users : str(u.id) = resp.token.payload.sub

\* C14: verify_jwt fails closed: every token signed with the server's key
\* that lacks any one of the claims sub, tenant id, e-mail, issued-at or
\* expiry is rejected.
C14_FailsClosedOnMissingClaim ==
    (/\ resp.op = "verify_jwt"
     /\ resp.token.key = jwt_secret_key
     /\ \E c \in TokenClaims : c \notin DOMAIN resp.token.payload)
        => resp.status = 401

\* C14, what happens: a signed token without an expiry claim is accepted,
\* here long after a token issued with it would have expired
C14_AcceptedWithoutExpiry ==
    /\ resp.op = "verify_jwt"
    /\ resp.status = 200
    /\ resp.token.key = jwt_secret_key
    /\ "exp" \notin DOMAIN resp.token.payload
    /\ now > resp.token.payload.iat * TicksPerSecond + timedelta(jwt_expire_minutes) + TicksPerSecond

\* --------------------------------------------------------- Credential Vault
\* encrypt_value: the process-wide service applied to a plaintext
encrypt_value(plaintext) ==
    /\ resp' = [Response("encrypt_value", 200, "") EXCEPT
                   !.plaintext = plaintext,
                   !.ciphertext = encrypt(encryption_key, plaintext)]
    /\ UNCHANGED <<issued_admin, now, tenants, tenant_domains, users, user_tenants, seq,
                   encryption_key, issued, pc, req>>

\* decrypt_value: the process-wide service applied to a ciphertext; an
\* exception leaving it ends the caller's request with 500
decrypt_value(ciphertext) ==
    /\ LET decrypted == decrypt(encryption_key, ciphertext) IN
       IF decrypted = InvalidToken
       THEN resp' = [Response("decrypt_value", 500, "Internal Server Error") EXCEPT
                        !.ciphertext = ciphertext]
       ELSE resp' = [Response("decrypt_value", 200, "") EXCEPT
                        !.ciphertext = ciphertext, !.plaintext = decrypted]
    /\ UNCHANGED <<issued_admin, now, tenants, tenant_domains, users, user_tenants, seq,
                   encryption_key, issued, pc, req>>

Plaintexts == {""} \cup Secrets

\* strings that are no Fernet token, and a token cut short or extended
Malformed == {<<"junk">>} \cup {<<k, "s1", "+">> : k \in Keys}

CiphertextInputs ==
    {resp.ciphertext} \cup {ut.erp_password_or_token : ut \in user_tenants}
        \cup Malformed \cup {EmptyStr}

NextVault ==
    \/ \E plaintext \in Plaintexts : encrypt_value(plaintext)
    \/ \E ciphertext \in CiphertextInputs : decrypt_value(ciphertext)
    \/ \E key \in Keys : restart(key)
    \/ \E secret \in Secrets : create_user(AdminEmail, None, 1, "alice", secret)
    \/ \E secret \in Secrets : update_user_tenant(1, 1, None, secret, None)

SpecVault == InitSample /\ [][NextVault]_vars

\* C15: under one fixed master secret, decrypting the encryption of any
\* plaintext P gives P back, and the encryption of the empty string is the
\* empty string.
C15_RoundTrip ==
    [][/\ (resp'.op = "encrypt_value" /\ resp'.plaintext = "")
          => resp'.ciphertext = EmptyStr
       /\ (/\ resp.op = "encrypt_value"
           /\ resp.ciphertext = encrypt(encryption_key, resp.plaintext)
           /\ resp'.op = "decrypt_value"
           /\ resp'.ciphertext = resp.ciphertext)
          => resp'.plaintext = resp.plaintext]_vars

\* C15, what happens: the encryption of the empty string decrypts to None
C15_EmptyStringComesBackAsNone ==
    /\ resp.op = "decrypt_value"
    /\ resp.ciphertext = encrypt(encryption_key, "")
    /\ resp.plaintext = None

\* C16: decrypt, also through decrypt_value, returns None and raises nothing
\* for every non-empty ciphertext that is malformed, tampered with or made
\* under another master secret.
C16_DecryptNeverRaises ==
    [][(/\ resp' # resp
        /\ resp'.op = "decrypt_value"
        /\ Truthy(resp'.ciphertext)
        /\ \A plaintext \in Plaintexts : resp'.ciphertext # encrypt(encryption_key, plaintext))
          => resp'.status = 200 /\ resp'.plaintext = None]_vars

\* C16, the case: a stored ciphertext made under the master secret of an
\* earlier process was decrypted to None
C16_Witness ==
    /\ resp.op = "decrypt_value"
    /\ resp.status = 200
    /\ resp.plaintext = None
    /\ \E ut \in user_tenants : ut.erp_password_or_token = resp.ciphertext
    /\ \E k \in Keys \ {encryption_key}, plaintext \in Secrets :
           resp.ciphertext = encrypt(k, plaintext)

\* ------------------------------------------------------------ admin: domains
DomainRowIds == 1..MaxDomainRows

\* An operator adds a second tenant and creates, moves, renames and deletes
\* domain mappings.
NextDomains ==
    \/ create_tenant("Bolt", "https://erp", "demo", None)
    \/ \E domain \in DomainInputs, id \in 1..(MaxTenants + 1) : create_domain(domain, id)
    \/ \E id \in DomainRowIds, domain \in DomainInputs \cup {<<>>},
          tenant_id \in 1..(MaxTenants + 1) \cup {NoneInt} :
          update_domain(id, domain, tenant_id)
    \/ \E id \in DomainRowIds : delete_domain(id)

SpecDomains == InitSample /\ [][NextDomains]_vars

PairTaken(domain, tenant_id) ==
    \E d \in tenant_domains : d.tenant_id = tenant_id /\ d.domain = Lower(domain)

\* C17: create_domain(tenant, domain) fails when the tenant does not exist;
\* fails with the conflict error and leaves the Directory unchanged when a
\* row with the same (tenant, lower-cased domain) pair exists; and succeeds,
\* adding exactly that row, otherwise - also when the domain is attached to
\* other tenants. After any sequence of create_domain, update_domain and
\* delete_domain the (tenant, domain) pairs of the rows are pairwise distinct.
C17_CreateDomain ==
    /\ [](\A a, b \in tenant_domains :
            (a.tenant_id = b.tenant_id /\ a.domain = b.domain) => a = b)
    /\ [][\A domain \in DomainInputs, tenant_id \in 1..(MaxTenants + 1) :
            create_domain(domain, tenant_id) =>
               IF \A t \in tenants : t.id # tenant_id
               THEN resp'.status \in 400..499 /\ directory' = directory
               ELSE IF PairTaken(domain, tenant_id)
               THEN /\ resp'.status = 400
                    /\ resp'.detail = "This domain is already connected to this tenant"
                    /\ directory' = directory
               ELSE /\ resp'.status = 201
                    /\ \E d \in tenant_domains' \ tenant_domains :
                          /\ d.tenant_id = tenant_id
                          /\ d.domain = Lower(domain)
                          /\ tenant_domains' = tenant_domains \cup {d}
                    /\ <<tenants, users, user_tenants>>' = <<tenants, users, user_tenants>>]_vars

\* C17, the case: a domain attached to one tenant was attached to a second
\* tenant as well
C17_Witness ==
    /\ resp.op = "create_domain"
    /\ resp.status = 201
    /\ \E a, b \in tenant_domains : a.domain = b.domain /\ a.tenant_id # b.tenant_id

\* ------------------------------------------------- switch_tenant: no writes
\* C18: every step of a switch_tenant request, whatever its outcome, leaves
\* the Directory as it was; when the ERP re-validation fails, the association
\* keeps its encrypted credentials and its active flag and no token is issued.
C18_SwitchWritesNothing ==
    [][\A r \in Reqs :
         (req'[r] # req[r] /\ req'[r].op = "switch")
            => /\ directory' = directory
               /\ seq' = seq
               /\ req'[r].erp \in ErpFailures
                    => /\ req'[r].token = NoToken
                       /\ issued' = issued
                       /\ \A ut \in user_tenants : ut.id = req[r].user_tenant => ut \in user_tenants']_vars

\* C18, the case: the ERP refused the stored credentials of a switch request
\* and the association still holds them and is still active
C18_Witness ==
    \E r \in Reqs :
        /\ pc[r] = "idle"
        /\ req[r].op = "switch"
        /\ req[r].erp = "auth"
        /\ req[r].detail = "STORED_CREDENTIALS_INVALID"
        /\ req[r].token = NoToken
        /\ \E ut \in user_tenants :
              /\ ut.id = req[r].user_tenant
              /\ ut.is_active
              /\ Truthy(ut.erp_username) /\ Truthy(ut.erp_password_or_token)

\* ------------------------------------------- register: ERP failure classes
\* C19: a register request whose ERP validation fails surfaces the class of
\* the failure: rejected credentials end with 401, while an unreachable ERP
\* and an ERP timeout each end with an outcome that is not the 401 of bad
\* credentials.
C19_ErpFailureClassified ==
    [][\A r \in Reqs :
         (req'[r] # req[r] /\ req'[r].op = "register" /\ pc'[r] = "idle")
            => /\ req'[r].erp = "auth" => req'[r].status = 401
               /\ req'[r].erp \in {"connect", "timeout"}
                    => req'[r].status # 401]_vars

\* C19, what happens: an unreachable ERP ends the request with the 401 of
\* invalid ERP credentials
C19_UnreachableSurfacedAs401 ==
    \E r \in Reqs :
        /\ pc[r] = "idle"
        /\ req[r].op = "register"
        /\ req[r].erp = "connect"
        /\ req[r].status = 401
        /\ req[r].detail = "Invalid ERP credentials: All connection attempts failed"

\* --------------------------------------------- concurrent admin creations
\* Two operators, each through a server process of its own, create the same
\* domain mapping, the same user and the same association.
NextAdminRace ==
    \/ \E r \in Reqs, domain \in {<<"X">>, <<"x", "x">>} : create_domain_query(r, domain, 1)
    \/ \E r \in Reqs, id \in {0, 1} : create_user_query(r, AdminEmail, id, "alice", "s2")
    \/ \E r \in Reqs, u \in UserIds : add_user_tenant_query(r, u, 1, "alice", "s2")
    \/ \E r \in Reqs : admin_commit(r)

SpecAdminRace == InitSample /\ [][NextAdminRace]_vars

\* the unique key a create request is about is held by a committed row
KeyTaken(request) ==
    CASE request.op = "create_domain" ->
           \E d \in tenant_domains :
               d.domain = request.domain /\ d.tenant_id = request.tenant_id
      [] request.op = "create_user" -> \E u \in users : u.email = request.email
      [] request.op = "add_user_tenant" ->
           \E ut \in user_tenants :
               ut.user_id = request.user /\ ut.tenant_id = request.tenant_id
      [] OTHER -> FALSE

\* C20: of two admin requests that passed the existence check for the same
\* unique key before either committed, one creates the row and the other
\* ends in a Conflict outcome: a request committing onto a key that a
\* committed row holds changes nothing and ends with a conflict status, not
\* with 500.
C20_LoserEndsInConflict ==
    [][\A r \in Reqs :
         (pc[r] = "adm_commit" /\ pc'[r] = "idle" /\ KeyTaken(req[r]))
            => /\ req'[r].status \in {400, 409}
               /\ req'[r].status # 500
               /\ directory' = directory]_vars

\* C20, what happens: one request created the row and the other, which had
\* passed its existence check as well, ended with 500
C20_LoserEndsIn500 ==
    \E r1, r2 \in Reqs :
        /\ r1 # r2
        /\ pc[r1] = "idle" /\ pc[r2] = "idle"
        /\ req[r1].op = req[r2].op
        /\ req[r1].op \in {"create_domain", "create_user", "add_user_tenant"}
        /\ req[r1].status = 201
        /\ req[r2].status = 500
        /\ KeyTaken(req[r2])

\* ------------------------------------------ transactions and the ERP call
\* C21: while the ERP validation call of a register or switch request is in
\* flight, the request holds no open Directory transaction: the transaction
\* of its lookups has ended before the call starts.
C21_NoTransactionDuringErpCall ==
    \A r \in Reqs : pc[r] \in {"reg_erp", "sw_erp"} => ~req[r].txn

\* C21, what happens: the session's transaction, begun by the lookups, is
\* open while the ERP call of a switch request is in flight
C21_TransactionOpenDuringErpCall ==
    \E r \in Reqs : pc[r] = "sw_erp" /\ req[r].op = "switch" /\ req[r].txn

\* ---------------------------------------------------------- cascade delete
\* An operator creates tenants, domain mappings, users and associations and
\* deletes tenants and users.
NextCascade ==
    \/ create_tenant("Bolt", "https://erp", "demo", None)
    \/ \E id \in TenantIds : create_domain(<<"x">>, id)
    \/ \E email \in {GateEmail, <<"X", "x", "@", "x">>}, id \in TenantIds \cup {0} :
          create_user(email, None, id, "alice", "s1")
    \/ \E u \in UserIds, t \in TenantIds : add_user_tenant(u, t, "alice", "s1", None)
    \/ \E id \in TenantIds : delete_tenant(id)
    \/ \E id \in UserIds : delete_user(id)

SpecCascade == InitSample /\ [][NextCascade]_vars

C23_ActiveTenantHasErpParameters ==
    \A t \in tenants : t.is_active => (t.erp_base_url # "" /\ t.erp_company # "")

\* C23, what happens: create_tenant stored an active tenant whose erp_company
\* is the empty string
C23_ActiveTenantWithoutCompany ==
    /\ resp.op = "create_tenant"
    /\ resp.status = 201
    /\ \E t \in tenants : t.id = resp.tenant_id /\ t.is_active /\ t.erp_company = ""

\* ------------------------------------------------- registering once more
\* A client registers and registers again, for either tenant of its domain,
\* while an operator adds the second tenant, changes and deactivates the
\* association and deactivates the user.
NextReRegister ==
    \/ create_tenant("Bolt", "https://erp", "demo", None)
    \/ create_domain(<<"x">>, 2)
    \/ \E secret \in Secrets, id \in {1, 2} :
          register_start(1, GateEmail, "alice", secret, id)
    \/ \E outcome \in {"ok", "auth"} : register_erp_return(1, outcome)
    \/ register_find_user(1)
    \/ register_flush(1)
    \/ register_commit(1)
    \/ \E u \in {1, 2} : update_user_tenant(u, 1, None, None, "False")
    \/ \E id \in {1, 2} : update_user(id, <<>>, "False")
    \/ create_user(<<"X", "x", "@", "x">>, None, 1, "bob", "s1")

SpecReRegister == InitSample /\ [][NextReRegister]_vars

\* the step in which register request r commits and answers 200
RegisterSucceeds(r) ==
    /\ pc[r] = "reg_commit"
    /\ pc'[r] = "idle"
    /\ req'[r].op = "register"
    /\ req'[r].status = 200

C25_RegisterFrame ==
    [][\A r \in Reqs :
         RegisterSucceeds(r)
            => /\ req'[r].token.payload.tenant_id = req[r].tenant_id
               /\ req[r].tenant = req[r].tenant_id
               /\ tenants' = tenants
               /\ tenant_domains' = tenant_domains
               /\ \A u \in users : u.email # req[r].email => u \in users'
               /\ \A u \in users' \ users : u.email = req[r].email
               /\ \A ut \in user_tenants :
                     (ut.user_id # req[r].user \/ ut.tenant_id # req[r].tenant_id)
                        => ut \in user_tenants'
               /\ \A ut \in user_tenants' \ user_tenants :
                     ut.user_id = req[r].user /\ ut.tenant_id = req[r].tenant_id]_vars

\* C25, the case: the client registered for tenant 2 of its domain after it
\* had registered for tenant 1 with another secret; the association with
\* tenant 1 is as it was, and so is another, inactive user
C25_Witness ==
    /\ pc[1] = "idle"
    /\ req[1].op = "register"
    /\ req[1].status = 200
    /\ req[1].tenant_id = 2
    /\ req[1].token.payload.tenant_id = 2
    /\ req[1].erp_password_or_token = "s2"
    /\ \E ut \in user_tenants :
          /\ ut.user_id = req[1].user
          /\ ut.tenant_id = 1
          /\ ut.erp_password_or_token = encrypt(encryption_key, "s1")
    /\ \E ut \in user_tenants : ut.user_id = req[1].user /\ ut.tenant_id = 2
    /\ \E u \in users : u.id # req[1].user /\ ~u.is_active

\* ------------------------------------------------------------ SpecCredentials
\* registered users ask for their own ERP credentials while an administrator
\* deactivates associations and the master key is replaced
NextCredentials ==
    \/ \E secret \in Secrets, id \in {0, 1} : register_start(1, GateEmail, "alice", secret, id)
    \/ \E outcome \in {"ok", "auth"} : register_erp_return(1, outcome)
    \/ register_find_user(1)
    \/ register_flush(1)
    \/ register_commit(1)
    \/ \E u \in UserIds, t \in TenantIds, is_active \in {"True", "False"} :
          update_user_tenant(u, t, None, None, is_active)
    \/ \E credentials \in GateCredentials : get_priority_credentials_and_config(credentials)

SpecCredentials == InitSample /\ [][NextCredentials]_vars

\* the association a token names holds credentials the current key decrypts
StoredCredentials(token, ut) ==
    /\ str(ut.user_id) = token.payload.sub
    /\ ut.tenant_id = token.payload.tenant_id
    /\ Truthy(ut.erp_username) /\ Truthy(ut.erp_password_or_token)
    /\ decrypt(encryption_key, ut.erp_username) \notin {None, ""}
    /\ decrypt(encryption_key, ut.erp_password_or_token) \notin {None, ""}

\* C26: a request the gate authorizes for (U, T), whose UserTenant row holds
\* non-empty decryptable credentials, gets from the user-credential path of
\* get_priority_credentials_and_config the decrypted username and secret of
\* that row together with T's company and base URL
C26_UserCredentialsReturned ==
    [][\A credentials \in GateCredentials, ut \in user_tenants, t \in tenants :
          ( /\ get_priority_credentials_and_config(credentials)
            /\ credentials # NoCredential
            /\ ~("error" \in DOMAIN verify_jwt(credentials))
            /\ Usable(credentials)
            /\ StoredCredentials(credentials, ut)
            /\ t.id = ut.tenant_id )
          => /\ resp'.status = 200
             /\ resp'.credentials = <<decrypt(encryption_key, ut.erp_username),
                                      decrypt(encryption_key, ut.erp_password_or_token),
                                      t.erp_company, t.erp_base_url>>]_vars

\* C26 as the code behaves: an authorized request whose association holds
\* decryptable credentials is answered 500, the User object having no
\* credential attributes
C26_AuthorizedRequestFails ==
    /\ resp.op = "get_priority_credentials_and_config"
    /\ resp.status = 500
    /\ resp.token \in issued
    /\ Usable(resp.token)
    /\ \E ut \in user_tenants : StoredCredentials(resp.token, ut)

\* ---------------------------------------------------------------- SpecExpiry
\* a client registers, registers again and switches tenant as time passes
ExpiryInstants == {1, TicksPerSecond, 2 * TicksPerSecond + 1}

NextExpiry ==
    \/ \E t \in ExpiryInstants : tick(t)
    \/ \E secret \in Secrets : register_start(1, GateEmail, "alice", secret, 1)
    \/ \E outcome \in {"ok", "auth"} : register_erp_return(1, outcome)
    \/ register_find_user(1)
    \/ register_flush(1)
    \/ register_commit(1)
    \/ switch_start(2, GateEmail, 1)
    \/ \E outcome \in {"ok", "auth"} : switch_erp_return(2, outcome)

SpecExpiry == InitSample /\ [][NextExpiry]_vars

\* C27: the expires_in of every successful register_user and switch_tenant
\* response is the configured token lifetime, jwt_expire_minutes * 60 seconds
C27_ExpiresInIsTokenLifetime ==
    (resp.op \in {"register", "switch"} /\ resp.status = 200)
        => resp.expires_in = jwt_expire_minutes * 60

\* C27 as the code behaves: a user created earlier gets an expires_in that is
\* the lifetime plus the age of the User row
C27_ExpiresInCountsFromUserCreation ==
    /\ resp.op \in {"register", "switch"}
    /\ resp.status = 200
    /\ resp.expires_in > jwt_expire_minutes * 60
    /\ \E u \in users :
          /\ str(u.id) = resp.token.payload.sub
          /\ resp.expires_in =
                 total_seconds(resp.token.payload.iat * TicksPerSecond - u.created_at)
                     + jwt_expire_minutes * 60
          /\ timegm(u.created_at) < resp.token.payload.iat

\* ----------------------------------------------------------------- SpecIssue
\* a client registers and switches tenant while an administrator deactivates
\* the user, the tenant and the association, and deletes the tenant
NextIssue ==
    \/ register_start(1, GateEmail, "alice", "s1", 1)
    \/ \E outcome \in {"ok", "auth"} : register_erp_return(1, outcome)
    \/ register_find_user(1)
    \/ register_flush(1)
    \/ register_commit(1)
    \/ switch_start(2, GateEmail, 1)
    \/ \E outcome \in {"ok", "auth"} : switch_erp_return(2, outcome)
    \/ \E is_active \in {"True", "False"} : update_user(1, <<>>, is_active)
    \/ \E is_active \in {"True", "False"} : update_tenant(1, None, None, None, is_active)
    \/ \E is_active \in {"True", "False"} : update_user_tenant(1, 1, None, None, is_active)
    \/ delete_tenant(1)

SpecIssue == InitSample /\ [][NextIssue]_vars

\* slot r's register_user or switch_tenant returns a token in this step
IssuesToken(r) ==
    /\ pc[r] \in {"reg_commit", "sw_erp"}
    /\ pc'[r] = "idle"
    /\ req'[r].op \in {"register", "switch"}
    /\ req'[r].status = 200
    /\ req'[r].token # NoToken

\* C28: when register_user or switch_tenant returns a token for (U, T), U
\* exists and is globally active, T exists and is active and the UserTenant
\* row for (U, T) exists and is active in the Directory of that moment
C28_IssuedTokenPassesGate ==
    [][\A r \in Reqs :
          IssuesToken(r) =>
              /\ \E u \in users' : str(u.id) = req'[r].token.payload.sub /\ u.is_active
              /\ \E t \in tenants' : t.id = req'[r].token.payload.tenant_id /\ t.is_active
              /\ \E ut \in user_tenants' :
                    /\ str(ut.user_id) = req'[r].token.payload.sub
                    /\ ut.tenant_id = req'[r].token.payload.tenant_id
                    /\ ut.is_active]_vars

\* C28 as the code behaves: register_user has just returned a token for a User
\* whose global is_active flag is false
C28_TokenForInactiveUser ==
    /\ resp.op = "register"
    /\ resp.status = 200
    /\ resp.token \in issued
    /\ \E u \in users : str(u.id) = resp.token.payload.sub /\ ~u.is_active
    /\ TenantUsable(resp.token)
    /\ AssociationUsable(resp.token)
    /\ pc[2] = "idle" /\ req[2].op = ""

\* what slot r's request presented: register_user carries an ERP secret, which
\* the ERP accepted or not in this request; switch_tenant carries an e-mail
\* address and a tenant id, and neither handler reads a bearer token
PresentedValidatedSecret(r) ==
    /\ req'[r].erp_password_or_token # ""
    /\ req'[r].erp = "ok"
    /\ req'[r].erp_password_or_token = req[r].erp_password_or_token

\* C29: a token for a user is issued only in response to a request that
\* presented an ERP secret which passed validation in that same request (no
\* token-issuing request carries a bearer token)
C29_TokenOnlyForPresentedSecret ==
    [][\A r \in Reqs : IssuesToken(r) => PresentedValidatedSecret(r)]_vars

\* C29 as the code behaves: switch_tenant has just returned a token for the
\* user of an e-mail address to a request that held that address and a tenant
\* id and nothing else
C29_TokenForEmailAndTenantId ==
    /\ resp.op = "switch"
    /\ resp.status = 200
    /\ resp.token \in issued
    /\ req[2].op = "switch"
    /\ req[2].token = resp.token
    /\ req[2].erp_username = "" /\ req[2].erp_password_or_token = ""
    /\ \E u \in users : u.email = req[2].email /\ str(u.id) = resp.token.payload.sub
    /\ resp.token.payload.tenant_id = req[2].tenant_id

\* C30: a step of register_user that commits a UserTenant row commits it for a
\* tenant that exists and is active at that moment, and a User row register
\* creates becomes visible together with its UserTenant row
C30_RegisterAtomicWithTenantAdmin ==
    [][RegisterStep =>
          /\ \A ut \in user_tenants' \ user_tenants :
                \E t \in tenants' : t.id = ut.tenant_id /\ t.is_active
          /\ \A u \in users' \ users :
                \E ut \in user_tenants' : ut.user_id = u.id]_vars

\* C30 as the code behaves: register_user has just committed a UserTenant row
\* and returned a token for a tenant that was deactivated after the request
\* had read it
C30_RowCommittedForInactiveTenant ==
    /\ resp.op = "register"
    /\ resp.status = 200
    /\ req[1].wrote
    /\ \E ut \in user_tenants, t \in tenants :
          /\ str(ut.user_id) = resp.token.payload.sub
          /\ ut.tenant_id = resp.token.payload.tenant_id
          /\ t.id = ut.tenant_id
          /\ ~t.is_active

====
